---------------------------- MODULE Spec2Model ----------------------------
(***************************************************************************)
(* Calisto: round-robin multi-agent conversation orchestrator.             *)
(*                                                                         *)
(* The model follows src/src/agents/orchestrator.py (MultiAgentOrchestrator*)
(* with run and run_streaming) and src/src/agents/base.py (Agent.respond,  *)
(* HumanAgent).  Texts are sequences of one-character strings so that      *)
(* str.lower, str.strip and the substring test of _should_terminate are    *)
(* computed, not assumed.  Timestamps are left out (wall clock); the       *)
(* generation latency is kept as a field whose presence matters.           *)
(***************************************************************************)
EXTENDS Integers, Sequences, FiniteSets, TLC

(***************************************************************************)
(* Bounds of the model.                                                    *)
(***************************************************************************)
MaxTurns == 3
MaxAgents == 3

(***************************************************************************)
(* Orchestrator instances.  Instance 1 is the one the single-run           *)
(* specification drives; instance 2 is used where two runs are compared.   *)
(***************************************************************************)
Inst == {1, 2}

(***************************************************************************)
(* Texts.                                                                  *)
(***************************************************************************)
TxtEmpty == <<>>
TxtHi == <<"h", "i">>
TxtOk == <<"o", "k">>
TxtDealSeed == <<"b", "i", "g", " ", "d", "e", "a", "l">>
TxtDealReply == <<" ", "D", "e", "a", "l", "!", " ">>
TxtBlank == <<" ", " ">>

\* str.lower on one character (the letters the texts of the model use)
LowerChar(c) ==
    CASE c = "A" -> "a" [] c = "B" -> "b" [] c = "C" -> "c" [] c = "D" -> "d"
      [] c = "E" -> "e" [] c = "F" -> "f" [] c = "G" -> "g" [] c = "H" -> "h"
      [] c = "I" -> "i" [] c = "J" -> "j" [] c = "K" -> "k" [] c = "L" -> "l"
      [] c = "M" -> "m" [] c = "N" -> "n" [] c = "O" -> "o" [] c = "P" -> "p"
      [] c = "Q" -> "q" [] c = "R" -> "r" [] c = "S" -> "s" [] c = "T" -> "t"
      [] c = "U" -> "u" [] c = "V" -> "v" [] c = "W" -> "w" [] c = "X" -> "x"
      [] c = "Y" -> "y" [] c = "Z" -> "z" [] OTHER -> c

\* str.lower
Lower(s) == [k \in 1..Len(s) |-> LowerChar(s[k])]

IsSpace(c) == c = " "

RECURSIVE LStrip(_)
LStrip(s) == IF s # <<>> /\ IsSpace(Head(s)) THEN LStrip(Tail(s)) ELSE s

RECURSIVE RStrip(_)
RStrip(s) ==
    IF s # <<>> /\ IsSpace(s[Len(s)]) THEN RStrip(SubSeq(s, 1, Len(s) - 1)) ELSE s

\* str.strip
Strip(s) == RStrip(LStrip(s))

\* Python's `kw in s` on strings
Contains(s, kw) ==
    \E k \in 0..(Len(s) - Len(kw)) : SubSeq(s, k + 1, k + Len(kw)) = kw

completion_keywords ==
    << <<"d", "e", "a", "l">>,
       <<"a", "g", "r", "e", "e", "d">>,
       <<"a", "g", "r", "e", "e", "m", "e", "n", "t">>,
       <<"s", "i", "g", "n", "e", "d">>,
       <<"a", "p", "p", "r", "o", "v", "e", "d">>,
       <<"c", "o", "n", "t", "r", "a", "c", "t">>,
       <<"g", "o", "o", "d", "b", "y", "e">>,
       <<"t", "h", "a", "n", "k", " ", "y", "o", "u", " ", "f", "o", "r", " ",
         "y", "o", "u", "r", " ", "t", "i", "m", "e">> >>

\* the keyword test of _should_terminate on one text
HasCompletionKeyword(text) ==
    \E k \in 1..Len(completion_keywords) :
        Contains(Lower(text), completion_keywords[k])

\* variant: the keywords are looked up in the text as written, not lower-cased
should_terminate_cased(history) ==
    /\ history # <<>>
    /\ \E k \in 1..Len(completion_keywords) :
          Contains(history[Len(history)].message, completion_keywords[k])

\* MultiAgentOrchestrator._should_terminate, on a conversation history
should_terminate(history) ==
    IF history = <<>>
    THEN FALSE
    ELSE HasCompletionKeyword(history[Len(history)].message)

(***************************************************************************)
(* Participants: Agent (autonomous) and HumanAgent (placeholder).          *)
(***************************************************************************)
Sarah == [name |-> "Sarah", company |-> "HPE", role |-> "Sales Engineer",
          human |-> FALSE]
Yuki == [name |-> "Yuki", company |-> "Toyota",
         role |-> "IT Procurement Manager", human |-> FALSE]
Marcus == [name |-> "Marcus", company |-> "Toyota", role |-> "Technical Lead",
           human |-> FALSE]
Hana == [name |-> "Hana", company |-> "Toyota", role |-> "Observer",
         human |-> TRUE]

People == {Sarah, Yuki, Marcus, Hana}

\* isinstance(current_agent, HumanAgent)
IsHumanAgent(a) == a.human

\* the non-empty participant lists of the model: no participant twice
AgentLists ==
    UNION {{l \in [1..n -> People] : \A a, b \in 1..n : a # b => l[a] # l[b]} :
           n \in 1..MaxAgents}

(***************************************************************************)
(* Optional[str] for initial_message: given = FALSE is None.               *)
(***************************************************************************)
NoSeed == [given |-> FALSE, text |-> TxtEmpty]
SeedOf(t) == [given |-> TRUE, text |-> t]
Seeds == {NoSeed, SeedOf(TxtEmpty), SeedOf(TxtHi), SeedOf(TxtDealSeed)}

\* Python truthiness of initial_message: None and "" are falsy
Truthy(seed) == seed.given /\ seed.text # <<>>

(***************************************************************************)
(* The LLM backend as seen by requests.post in Agent._call_llm_api: the    *)
(* call times out, cannot connect, answers a non-2xx status, or answers    *)
(* 200 with a JSON body.  A body is a function from keys to values.        *)
(***************************************************************************)
BodyOf(t) == [choices |-> <<[message |-> [content |-> t]]>>]
BodyNoChoices == [detail |-> "x"]
BodyEmptyChoices == [choices |-> <<>>]
BodyNoMessage == [choices |-> <<[index |-> 0]>>]
BodyNoContent == [choices |-> <<[message |-> [role |-> "assistant"]]>>]

ReplyOf(t) == [kind |-> "json", body |-> BodyOf(t)]
Unreachable == [kind |-> "refused"]

Outcomes ==
    {[kind |-> "timeout"], Unreachable, [kind |-> "status"],
     ReplyOf(TxtOk), ReplyOf(TxtDealReply), ReplyOf(TxtBlank),
     [kind |-> "json", body |-> BodyNoChoices],
     [kind |-> "json", body |-> BodyEmptyChoices],
     [kind |-> "json", body |-> BodyNoMessage],
     [kind |-> "json", body |-> BodyNoContent]}

NoError == [type |-> "none", what |-> ""]
ErrTimeout == [type |-> "RuntimeError", what |-> "timed out waiting for LLM response"]
ErrConnect == [type |-> "RuntimeError", what |-> "failed to connect to LLM"]
ErrEmpty == [type |-> "RuntimeError", what |-> "received empty response from LLM"]
ErrInvalid == [type |-> "RuntimeError", what |-> "received invalid response from LLM"]
ErrIndex == [type |-> "IndexError", what |-> "list index out of range"]

Failure(e) == [ok |-> FALSE, error |-> e, message |-> TxtEmpty]
Success(t) == [ok |-> TRUE, error |-> NoError, message |-> t]

\* variant: every failed request is reported as a timeout
call_llm_api_timeout(o) ==
    CASE o.kind \in {"timeout", "refused", "status"} -> ErrTimeout
      [] OTHER -> NoError

\* Agent._call_llm_api: the error it raises, NoError when it returns the body
call_llm_api(o) ==
    CASE o.kind = "timeout" -> ErrTimeout
      [] o.kind \in {"refused", "status"} -> ErrConnect
      [] OTHER -> NoError

\* Agent.respond, the parse of the body (lines 151-166)
parse_response(result) ==
    IF "choices" \notin DOMAIN result
    THEN Failure(ErrInvalid)
    ELSE IF Len(result["choices"]) = 0
    THEN Failure(ErrIndex)
    ELSE IF "message" \notin DOMAIN result["choices"][1]
    THEN Failure(ErrInvalid)
    ELSE IF "content" \notin DOMAIN result["choices"][1]["message"]
    THEN Failure(ErrInvalid)
    ELSE LET message == Strip(result["choices"][1]["message"]["content"])
         IN  IF message = <<>> THEN Failure(ErrEmpty) ELSE Success(message)

\* Agent.respond: what it returns or raises for one backend outcome
respond(o) ==
    IF call_llm_api(o) # NoError
    THEN Failure(call_llm_api(o))
    ELSE parse_response(o.body)

(***************************************************************************)
(* The prompt of Agent.respond.                                            *)
(***************************************************************************)
\* Agent._build_system_prompt: the persona the text is built from
build_system_prompt(a) == <<"You are", a.name, a.role, a.company>>

\* variant: own turns are tagged user and the others' assistant
build_messages_swapped(a, history) ==
    <<[role |-> "system", content |-> build_system_prompt(a)]>> \o
    [k \in 1..Len(history) |->
        [role |-> IF history[k].agent = a.name THEN "user" ELSE "assistant",
         content |-> history[k].message]]

\* Agent._build_messages
build_messages(a, history) ==
    <<[role |-> "system", content |-> build_system_prompt(a)]>> \o
    [k \in 1..Len(history) |->
        [role |-> IF history[k].agent = a.name THEN "assistant" ELSE "user",
         content |-> history[k].message]]

(***************************************************************************)
(* Messages of the conversation history.                                   *)
(***************************************************************************)
\* the dict built by _add_initial_message
SeedMessage(a, text) ==
    [turn |-> 0, agent |-> a.name, company |-> a.company, role |-> a.role,
     message |-> text]

\* the dict built by _execute_turn
TurnMessage(a, t, text) ==
    [turn |-> t, agent |-> a.name, company |-> a.company, role |-> a.role,
     message |-> text, generation_time |-> 1]

\* _add_initial_message, line 49: self.agents[0] on an empty list
SeedRaises(ags, seed) == Truthy(seed) /\ ags = <<>>

\* variant: a seed is appended whenever one is given, the empty string too
add_initial_message_given(ags, history, seed) ==
    IF ~seed.given
    THEN history
    ELSE Append(history, SeedMessage(ags[1], seed.text))

\* _add_initial_message: the history after the call
add_initial_message(ags, history, seed) ==
    IF ~Truthy(seed)
    THEN history
    ELSE Append(history, SeedMessage(ags[1], seed.text))

\* variant: rotation starts at the first participant even after a seed
StartIndex_zero(seed) == 0

\* run, line 137: current_agent_index = 1 if initial_message else 0
StartIndex(seed) == IF Truthy(seed) THEN 1 ELSE 0

\* variant: the generator starts at the first participant even after a seed
StreamStartIndex_zero(seed) == 0

\* run_streaming, line 182: current_agent_index = 1 if initial_message else 0
StreamStartIndex(seed) == IF Truthy(seed) THEN 1 ELSE 0

\* variant: the message is appended but never handed to the consumer
Yield_lost(ys, msg) == ys

\* run_streaming, lines 179 and 195: the consumer receives the message
Yield(ys, msg) == Append(ys, msg)

\* variant: the rotation runs backwards
NextIndex_back(idx, n) == (idx + n - 1) % n

\* current_agent_index = (current_agent_index + 1) % len(self.agents)
NextIndex(idx, n) == (idx + 1) % n

\* variant: range(1, self.max_turns + 2)
InRange_off(t, max) == t <= max + 1

\* for turn in range(1, self.max_turns + 1): the loop body runs for this turn
InRange(t, max) == t <= max

(***************************************************************************)
(* State.  Every variable is a function of the orchestrator instance,      *)
(* except backend.                                                         *)
(***************************************************************************)
VARIABLES
    agents,               \* self.agents
    max_turns,            \* self.max_turns
    conversation_history, \* self.conversation_history
    op,                   \* "none", "run" or "run_streaming"
    pc,                   \* position of the call
    initial_message,      \* argument of the call
    current_agent_index,  \* local of run / run_streaming
    turn,                 \* loop variable
    yielded,              \* messages the generator has handed to its consumer
    error,                \* exception that left the call, NoError if none
    backend_calls,        \* number of requests.post calls made
    skipped,              \* number of human turns skipped
    answers,              \* outcomes of the backend calls made so far
    request,              \* messages array of the latest backend request
    log_at_call,          \* the log as each call so far found it
    backend,              \* "any", or "deterministic": same call, same outcome
    conversations,        \* api: keys of the in-memory store
    records,              \* api: the dict created for each identifier
    requested,            \* api: identifiers handed out, with their request
    started,              \* api: identifiers start-conversation has accepted
    stream_conv,          \* api: identifier an instance's event_stream holds
    es_pc,                \* api: position of that event_stream
    events,               \* api: server-sent events it has produced
    response              \* api: the latest HTTP response

vars == <<agents, max_turns, conversation_history, op, pc, initial_message,
          current_agent_index, turn, yielded, error, backend_calls, skipped,
          answers, request, log_at_call, backend, conversations, records,
          requested,
          started, stream_conv, es_pc, events, response>>

\* the orchestrators and the backend
orch == <<agents, max_turns, conversation_history, op, pc, initial_message,
          current_agent_index, turn, yielded, error, backend_calls, skipped,
          answers, request, log_at_call, backend>>

\* the state of the HTTP layer
api == <<conversations, records, requested, started, stream_conv, es_pc,
         events, response>>

\* what a step of the loop never changes
fixed == <<agents, max_turns, op, initial_message, log_at_call, backend>>

\* participant list and turn limit of an instance nobody uses
InertAgents == <<Sarah>>

TypeOK ==
    /\ \A i \in Inst : agents[i] \in AgentLists
    /\ max_turns \in [Inst -> 1..MaxTurns]
    /\ op \in [Inst -> {"none", "run", "run_streaming"}]
    /\ pc \in [Inst -> {"idle", "created", "seed_yielded", "loop", "respond",
                        "yielded", "check", "done", "raised"}]
    /\ initial_message \in [Inst -> Seeds]
    /\ current_agent_index \in [Inst -> 0..MaxAgents]
    /\ turn \in [Inst -> 0..(MaxTurns + 1)]
    /\ backend_calls \in [Inst -> 0..MaxTurns]
    /\ skipped \in [Inst -> 0..MaxTurns]
    /\ \A i \in Inst : Len(answers[i]) <= backend_calls[i]
    /\ backend \in {"any", "deterministic"}

\* state of every instance right after __init__ (lines 31-33)
Constructed(ags, mts) ==
    /\ agents = ags
    /\ max_turns = mts
    /\ conversation_history = [i \in Inst |-> <<>>]
    /\ op = [i \in Inst |-> "none"]
    /\ pc = [i \in Inst |-> "idle"]
    /\ initial_message = [i \in Inst |-> NoSeed]
    /\ current_agent_index = [i \in Inst |-> 0]
    /\ turn = [i \in Inst |-> 0]
    /\ yielded = [i \in Inst |-> <<>>]
    /\ error = [i \in Inst |-> NoError]
    /\ backend_calls = [i \in Inst |-> 0]
    /\ skipped = [i \in Inst |-> 0]
    /\ answers = [i \in Inst |-> <<>>]
    /\ request = [i \in Inst |-> <<>>]
    /\ log_at_call = [i \in Inst |-> <<>>]

\* identifiers uuid4 can hand out
ConvIds == {1, 2}

\* no dict exists yet for an identifier; no response was sent yet
NoRecord == [status |-> "none"]
NoResponse == [op |-> "none", id |-> 0, code |-> 0, body |-> [detail |-> ""]]

\* api/main.py line 37: conversations = {}, and no request served yet
ApiIdle ==
    /\ conversations = {}
    /\ records = [c \in ConvIds |-> NoRecord]
    /\ requested = <<>>
    /\ started = {}
    /\ stream_conv = [i \in Inst |-> 0]
    /\ es_pc = [i \in Inst |-> "none"]
    /\ events = [i \in Inst |-> <<>>]
    /\ response = NoResponse

\* one orchestrator constructed with any participant list and turn limit
Init ==
    /\ \E l \in AgentLists, m \in 1..MaxTurns :
          Constructed([i \in Inst |-> IF i = 1 THEN l ELSE InertAgents],
                      [i \in Inst |-> IF i = 1 THEN m ELSE 1])
    /\ backend = "any"
    /\ ApiIdle

\* what the k-th call of another instance was answered, when already known
Known(i, k) ==
    {answers[j][k] : j \in {j \in Inst \ {i} : Len(answers[j]) >= k}}

\* the outcomes the backend may give to the call instance i has in flight
BackendAnswers(i) ==
    IF backend = "deterministic" /\ Known(i, backend_calls[i]) # {}
    THEN Known(i, backend_calls[i])
    ELSE Outcomes

(***************************************************************************)
(* run(initial_message): lines 131-137, up to the head of the loop.        *)
(***************************************************************************)
Run(i, seed) ==
    /\ pc[i] = "idle"
    /\ op' = [op EXCEPT ![i] = "run"]
    /\ initial_message' = [initial_message EXCEPT ![i] = seed]
    /\ IF SeedRaises(agents[i], seed)
       THEN /\ error' = [error EXCEPT ![i] = ErrIndex]
            /\ pc' = [pc EXCEPT ![i] = "raised"]
            /\ UNCHANGED <<conversation_history, current_agent_index, turn>>
       ELSE /\ conversation_history' =
                  [conversation_history EXCEPT
                     ![i] = add_initial_message(agents[i], @, seed)]
            /\ current_agent_index' =
                  [current_agent_index EXCEPT ![i] = StartIndex(seed)]
            /\ turn' = [turn EXCEPT ![i] = 1]
            /\ pc' = [pc EXCEPT ![i] = "loop"]
            /\ UNCHANGED error
    /\ log_at_call' =
          [log_at_call EXCEPT ![i] = Append(@, conversation_history[i])]
    /\ UNCHANGED <<agents, max_turns, yielded, backend_calls, skipped,
                   answers, backend>>
    /\ UNCHANGED request

(***************************************************************************)
(* run_streaming(initial_message): calling a generator function runs none  *)
(* of its body.                                                            *)
(***************************************************************************)
\* variant: calling run_streaming already inserts the seed
RunStreaming_eager(i, seed) ==
    /\ pc[i] = "idle"
    /\ initial_message' = [initial_message EXCEPT ![i] = seed]
    /\ op' = [op EXCEPT ![i] = "run_streaming"]
    /\ pc' = [pc EXCEPT ![i] = "created"]
    /\ conversation_history' =
          [conversation_history EXCEPT
             ![i] = IF SeedRaises(agents[i], seed)
                    THEN @
                    ELSE add_initial_message(agents[i], @, seed)]
    /\ log_at_call' =
          [log_at_call EXCEPT ![i] = Append(@, conversation_history[i])]
    /\ UNCHANGED <<agents, max_turns, current_agent_index, turn, yielded,
                   error, backend_calls, skipped, answers, backend>>
    /\ UNCHANGED request

RunStreaming(i, seed) ==
    /\ pc[i] = "idle"
    /\ initial_message' = [initial_message EXCEPT ![i] = seed]
    /\ op' = [op EXCEPT ![i] = "run_streaming"]
    /\ pc' = [pc EXCEPT ![i] = "created"]
    /\ log_at_call' =
          [log_at_call EXCEPT ![i] = Append(@, conversation_history[i])]
    /\ UNCHANGED <<agents, max_turns, conversation_history,
                   current_agent_index, turn, yielded, error, backend_calls,
                   skipped, answers, backend>>
    /\ UNCHANGED request

\* first next(): lines 175-182; the seed, when added, is yielded at line 179
StreamFirst(i) ==
    /\ pc[i] = "created"
    /\ IF SeedRaises(agents[i], initial_message[i])
       THEN /\ error' = [error EXCEPT ![i] = ErrIndex]
            /\ pc' = [pc EXCEPT ![i] = "raised"]
            /\ UNCHANGED <<conversation_history, current_agent_index, turn,
                           yielded>>
       ELSE /\ conversation_history' =
                  [conversation_history EXCEPT
                     ![i] = add_initial_message(agents[i], @,
                                                initial_message[i])]
            /\ IF conversation_history'[i] # conversation_history[i]
               THEN /\ yielded' =
                          [yielded EXCEPT
                             ![i] = Yield(@, conversation_history'[i][1])]
                    /\ pc' = [pc EXCEPT ![i] = "seed_yielded"]
                    /\ UNCHANGED <<current_agent_index, turn>>
               ELSE /\ current_agent_index' =
                          [current_agent_index EXCEPT
                             ![i] = StreamStartIndex(initial_message[i])]
                    /\ turn' = [turn EXCEPT ![i] = 1]
                    /\ pc' = [pc EXCEPT ![i] = "loop"]
                    /\ UNCHANGED yielded
            /\ UNCHANGED error
    /\ UNCHANGED <<fixed, backend_calls, skipped, answers>>
    /\ UNCHANGED request

\* next() while suspended at line 179: line 182 and the head of the loop
StreamResumeSeed(i) ==
    /\ pc[i] = "seed_yielded"
    /\ current_agent_index' =
          [current_agent_index EXCEPT
             ![i] = StreamStartIndex(initial_message[i])]
    /\ turn' = [turn EXCEPT ![i] = 1]
    /\ pc' = [pc EXCEPT ![i] = "loop"]
    /\ UNCHANGED <<fixed, conversation_history, yielded, error, backend_calls,
                   skipped, answers>>
    /\ UNCHANGED request

\* next() while suspended at line 195: on to the termination check
StreamResumeTurn(i) ==
    /\ pc[i] = "yielded"
    /\ pc' = [pc EXCEPT ![i] = "check"]
    /\ UNCHANGED <<fixed, conversation_history, current_agent_index, turn,
                   yielded, error, backend_calls, skipped, answers>>
    /\ UNCHANGED request

(***************************************************************************)
(* The loop of run (139-160) and of run_streaming (184-207).               *)
(***************************************************************************)
\* range exhausted: run returns the history, the generator ends
LoopExit(i) ==
    /\ pc[i] = "loop"
    /\ ~InRange(turn[i], max_turns[i])
    /\ pc' = [pc EXCEPT ![i] = "done"]
    /\ UNCHANGED <<fixed, conversation_history, current_agent_index, turn,
                   yielded, error, backend_calls, skipped, answers>>
    /\ UNCHANGED request

\* self.agents[current_agent_index] outside the list: IndexError, outside try
SelectFails(i) ==
    /\ pc[i] = "loop"
    /\ InRange(turn[i], max_turns[i])
    /\ current_agent_index[i] >= Len(agents[i])
    /\ error' = [error EXCEPT ![i] = ErrIndex]
    /\ pc' = [pc EXCEPT ![i] = "raised"]
    /\ UNCHANGED <<fixed, conversation_history, current_agent_index, turn,
                   yielded, backend_calls, skipped, answers>>
    /\ UNCHANGED request

\* variant: a skipped human turn does not use up a turn of the loop
SkipHuman_free(i) ==
    /\ pc[i] = "loop"
    /\ InRange(turn[i], max_turns[i])
    /\ current_agent_index[i] < Len(agents[i])
    /\ IsHumanAgent(agents[i][current_agent_index[i] + 1])
    /\ current_agent_index' =
          [current_agent_index EXCEPT ![i] = NextIndex(@, Len(agents[i]))]
    /\ skipped' = [skipped EXCEPT ![i] = @ + 1]
    /\ UNCHANGED <<fixed, conversation_history, pc, turn, yielded, error,
                   backend_calls, answers>>
    /\ UNCHANGED request

\* variant: a skipped human turn leaves a placeholder in the log
SkipHuman_logged(i) ==
    /\ pc[i] = "loop"
    /\ InRange(turn[i], max_turns[i])
    /\ current_agent_index[i] < Len(agents[i])
    /\ IsHumanAgent(agents[i][current_agent_index[i] + 1])
    /\ conversation_history' =
          [conversation_history EXCEPT
             ![i] = Append(@, SeedMessage(
                       agents[i][current_agent_index[i] + 1], TxtEmpty))]
    /\ current_agent_index' =
          [current_agent_index EXCEPT ![i] = NextIndex(@, Len(agents[i]))]
    /\ turn' = [turn EXCEPT ![i] = @ + 1]
    /\ skipped' = [skipped EXCEPT ![i] = @ + 1]
    /\ UNCHANGED <<fixed, pc, yielded, error, backend_calls, answers>>
    /\ UNCHANGED request

\* _execute_turn returns None for a HumanAgent: advance and continue
SkipHuman(i) ==
    /\ pc[i] = "loop"
    /\ InRange(turn[i], max_turns[i])
    /\ current_agent_index[i] < Len(agents[i])
    /\ IsHumanAgent(agents[i][current_agent_index[i] + 1])
    /\ current_agent_index' =
          [current_agent_index EXCEPT ![i] = NextIndex(@, Len(agents[i]))]
    /\ turn' = [turn EXCEPT ![i] = @ + 1]
    /\ skipped' = [skipped EXCEPT ![i] = @ + 1]
    /\ UNCHANGED <<fixed, conversation_history, pc, yielded, error,
                   backend_calls, answers>>
    /\ UNCHANGED request

\* variant: respond is handed the most recent message only
CallRespond_last(i) ==
    /\ pc[i] = "loop"
    /\ InRange(turn[i], max_turns[i])
    /\ current_agent_index[i] < Len(agents[i])
    /\ ~IsHumanAgent(agents[i][current_agent_index[i] + 1])
    /\ request' = [request EXCEPT
          ![i] = build_messages(
                    agents[i][current_agent_index[i] + 1],
                    IF conversation_history[i] = <<>>
                    THEN <<>>
                    ELSE <<conversation_history[i]
                              [Len(conversation_history[i])]>>)]
    /\ backend_calls' = [backend_calls EXCEPT ![i] = @ + 1]
    /\ pc' = [pc EXCEPT ![i] = "respond"]
    /\ UNCHANGED <<fixed, conversation_history, current_agent_index, turn,
                   yielded, error, skipped, answers>>

\* _execute_turn calls current_agent.respond, which posts to the backend
CallRespond(i) ==
    /\ pc[i] = "loop"
    /\ InRange(turn[i], max_turns[i])
    /\ current_agent_index[i] < Len(agents[i])
    /\ ~IsHumanAgent(agents[i][current_agent_index[i] + 1])
    /\ request' = [request EXCEPT
          ![i] = build_messages(agents[i][current_agent_index[i] + 1],
                                conversation_history[i])]
    /\ backend_calls' = [backend_calls EXCEPT ![i] = @ + 1]
    /\ pc' = [pc EXCEPT ![i] = "respond"]
    /\ UNCHANGED <<fixed, conversation_history, current_agent_index, turn,
                   yielded, error, skipped, answers>>

\* variant: the log is one list that every instance appends to
RespondReturns_shared(i) ==
    /\ pc[i] = "respond"
    /\ \E o \in BackendAnswers(i) :
        /\ respond(o).ok
        /\ answers' = [answers EXCEPT ![i] = Append(@, o)]
        /\ conversation_history' =
              [j \in Inst |->
                 Append(conversation_history[j],
                        TurnMessage(agents[i][current_agent_index[i] + 1],
                                    turn[i], respond(o).message))]
    /\ IF op[i] = "run_streaming"
       THEN /\ yielded' = [yielded EXCEPT
                  ![i] = Yield(@, conversation_history'[i]
                                     [Len(conversation_history'[i])])]
            /\ pc' = [pc EXCEPT ![i] = "yielded"]
       ELSE /\ pc' = [pc EXCEPT ![i] = "check"]
            /\ UNCHANGED yielded
    /\ UNCHANGED <<fixed, current_agent_index, turn, error, backend_calls,
                   skipped>>
    /\ UNCHANGED request

\* respond returns: the message is appended (line 90); run_streaming yields it
RespondReturns(i) ==
    /\ pc[i] = "respond"
    /\ \E o \in BackendAnswers(i) :
        /\ respond(o).ok
        /\ answers' = [answers EXCEPT ![i] = Append(@, o)]
        /\ conversation_history' =
              [conversation_history EXCEPT
                 ![i] = Append(@, TurnMessage(
                            agents[i][current_agent_index[i] + 1], turn[i],
                            respond(o).message))]
    /\ IF op[i] = "run_streaming"
       THEN /\ yielded' = [yielded EXCEPT
                  ![i] = Yield(@, conversation_history'[i]
                                     [Len(conversation_history'[i])])]
            /\ pc' = [pc EXCEPT ![i] = "yielded"]
       ELSE /\ pc' = [pc EXCEPT ![i] = "check"]
            /\ UNCHANGED yielded
    /\ UNCHANGED <<fixed, current_agent_index, turn, error, backend_calls,
                   skipped>>
    /\ UNCHANGED request

\* variant: a failed turn is tried again
RespondRaises_retry(i) ==
    /\ pc[i] = "respond"
    /\ \E o \in BackendAnswers(i) :
        /\ ~respond(o).ok
        /\ answers' = [answers EXCEPT ![i] = Append(@, o)]
        /\ error' = [error EXCEPT ![i] = respond(o).error]
    /\ pc' = [pc EXCEPT ![i] = "loop"]
    /\ UNCHANGED <<fixed, conversation_history, current_agent_index, turn,
                   yielded, backend_calls, skipped>>
    /\ UNCHANGED request

\* variant: a failed turn is logged and the loop goes on with the next agent
RespondRaises_swallow(i) ==
    /\ pc[i] = "respond"
    /\ \E o \in BackendAnswers(i) :
        /\ ~respond(o).ok
        /\ answers' = [answers EXCEPT ![i] = Append(@, o)]
        /\ error' = [error EXCEPT ![i] = respond(o).error]
    /\ current_agent_index' =
          [current_agent_index EXCEPT ![i] = NextIndex(@, Len(agents[i]))]
    /\ turn' = [turn EXCEPT ![i] = @ + 1]
    /\ pc' = [pc EXCEPT ![i] = "loop"]
    /\ UNCHANGED <<fixed, conversation_history, yielded, backend_calls,
                   skipped>>
    /\ UNCHANGED request

\* respond raises: logged and re-raised (lines 150-152, 197-199)
RespondRaises(i) ==
    /\ pc[i] = "respond"
    /\ \E o \in BackendAnswers(i) :
        /\ ~respond(o).ok
        /\ answers' = [answers EXCEPT ![i] = Append(@, o)]
        /\ error' = [error EXCEPT ![i] = respond(o).error]
    /\ pc' = [pc EXCEPT ![i] = "raised"]
    /\ UNCHANGED <<fixed, conversation_history, current_agent_index, turn,
                   yielded, backend_calls, skipped>>
    /\ UNCHANGED request

\* variant: the index advances before the loop is left
CheckTermination_advancing(i) ==
    /\ pc[i] = "check"
    /\ current_agent_index' =
          [current_agent_index EXCEPT ![i] = NextIndex(@, Len(agents[i]))]
    /\ IF should_terminate(conversation_history[i])
       THEN /\ pc' = [pc EXCEPT ![i] = "done"]
            /\ UNCHANGED turn
       ELSE /\ turn' = [turn EXCEPT ![i] = @ + 1]
            /\ pc' = [pc EXCEPT ![i] = "loop"]
    /\ UNCHANGED <<fixed, conversation_history, yielded, error, backend_calls,
                   skipped, answers>>
    /\ UNCHANGED request

\* lines 154-160: break on termination, else advance to the next agent
CheckTermination(i) ==
    /\ pc[i] = "check"
    /\ IF should_terminate(conversation_history[i])
       THEN /\ pc' = [pc EXCEPT ![i] = "done"]
            /\ UNCHANGED <<current_agent_index, turn>>
       ELSE /\ current_agent_index' =
                  [current_agent_index EXCEPT ![i] = NextIndex(@, Len(agents[i]))]
            /\ turn' = [turn EXCEPT ![i] = @ + 1]
            /\ pc' = [pc EXCEPT ![i] = "loop"]
    /\ UNCHANGED <<fixed, conversation_history, yielded, error, backend_calls,
                   skipped, answers>>
    /\ UNCHANGED request

\* every step of a call in progress on instance i
Step(i) ==
    \/ StreamFirst(i)
    \/ StreamResumeSeed(i)
    \/ StreamResumeTurn(i)
    \/ LoopExit(i)
    \/ SelectFails(i)
    \/ SkipHuman(i)
    \/ CallRespond(i)
    \/ RespondReturns(i)
    \/ RespondRaises(i)
    \/ CheckTermination(i)

\* one orchestrator, one call of run or of run_streaming, any backend
Next ==
    \/ \E seed \in Seeds : Run(1, seed) /\ UNCHANGED api
    \/ \E seed \in Seeds : RunStreaming(1, seed) /\ UNCHANGED api
    \/ Step(1) /\ UNCHANGED api

Spec == Init /\ [][Next]_vars

\* the same, when no respond call hangs and the consumer keeps requesting:
\* a step of the call that can be taken is taken in the end
SpecLive == Spec /\ WF_vars(Step(1) /\ UNCHANGED api)

(***************************************************************************)
(* Two orchestrators built alike, given the same seed and a deterministic  *)
(* backend: instance 1 is called with run, and when that call has ended    *)
(* instance 2 is called with run_streaming and consumed to its end.        *)
(***************************************************************************)
InitEq ==
    /\ \E l \in AgentLists, m \in 1..MaxTurns :
          Constructed([i \in Inst |-> l], [i \in Inst |-> m])
    /\ backend = "deterministic"
    /\ ApiIdle

NextEq ==
    \/ \E seed \in Seeds : Run(1, seed) /\ UNCHANGED api
    \/ Step(1) /\ UNCHANGED api
    \/ /\ pc[1] \in {"done", "raised"}
       /\ RunStreaming(2, initial_message[1])
       /\ UNCHANGED api
    \/ Step(2) /\ UNCHANGED api

SpecEq == InitEq /\ [][NextEq]_vars

(***************************************************************************)
(* agents/core.py: the earlier Agent and MultiAgentOrchestrator, which      *)
(* scripts import from agents.core.  Its run and run_streaming are the     *)
(* statements of orchestrator.py with _add_initial_message and             *)
(* _execute_turn written inline; its Agent.respond posts to /api/chat and  *)
(* reads the reply from result['message']['content'].                      *)
(***************************************************************************)
\* a body in the format of /api/chat
ChatBodyOf(t) == [message |-> [content |-> t]]

ChatReplyOf(t) == [kind |-> "json", body |-> ChatBodyOf(t)]

\* what a backend may answer to either Agent class
CoreOutcomes == Outcomes \cup {ChatReplyOf(TxtOk), ChatReplyOf(TxtDealReply)}

\* core.py, Agent.respond lines 88-110: the error raised by the request
core_post(o) ==
    CASE o.kind = "timeout" -> ErrTimeout
      [] o.kind \in {"refused", "status"} -> ErrConnect
      [] OTHER -> NoError

\* core.py, Agent.respond lines 113-130: the parse of the body
core_parse_response(result) ==
    IF "message" \notin DOMAIN result
    THEN Failure(ErrInvalid)
    ELSE IF "content" \notin DOMAIN result["message"]
    THEN Failure(ErrInvalid)
    ELSE LET message == Strip(result["message"]["content"])
         IN  IF message = <<>> THEN Failure(ErrEmpty) ELSE Success(message)

\* core.py, Agent.respond: what it returns or raises for one backend outcome
core_respond(o) ==
    IF core_post(o) # NoError
    THEN Failure(core_post(o))
    ELSE core_parse_response(o.body)

\* the outcomes the backend may give to the call a core instance has in flight
CoreBackendAnswers(i) ==
    IF backend = "deterministic" /\ Known(i, backend_calls[i]) # {}
    THEN Known(i, backend_calls[i])
    ELSE CoreOutcomes

\* core.py lines 207-218 and 270-284: respond returns, the message is
\* appended; run_streaming yields it
CoreRespondReturns(i) ==
    /\ pc[i] = "respond"
    /\ \E o \in CoreBackendAnswers(i) :
        /\ core_respond(o).ok
        /\ answers' = [answers EXCEPT ![i] = Append(@, o)]
        /\ conversation_history' =
              [conversation_history EXCEPT
                 ![i] = Append(@, TurnMessage(
                            agents[i][current_agent_index[i] + 1], turn[i],
                            core_respond(o).message))]
    /\ IF op[i] = "run_streaming"
       THEN /\ yielded' = [yielded EXCEPT
                  ![i] = Yield(@, conversation_history'[i]
                                     [Len(conversation_history'[i])])]
            /\ pc' = [pc EXCEPT ![i] = "yielded"]
       ELSE /\ pc' = [pc EXCEPT ![i] = "check"]
            /\ UNCHANGED yielded
    /\ UNCHANGED <<fixed, current_agent_index, turn, error, backend_calls,
                   skipped>>
    /\ UNCHANGED request

\* core.py lines 222-225 and 288-290: respond raises, logged and re-raised
CoreRespondRaises(i) ==
    /\ pc[i] = "respond"
    /\ \E o \in CoreBackendAnswers(i) :
        /\ ~core_respond(o).ok
        /\ answers' = [answers EXCEPT ![i] = Append(@, o)]
        /\ error' = [error EXCEPT ![i] = core_respond(o).error]
    /\ pc' = [pc EXCEPT ![i] = "raised"]
    /\ UNCHANGED <<fixed, conversation_history, current_agent_index, turn,
                   yielded, backend_calls, skipped>>
    /\ UNCHANGED request

\* core.py lines 194-233 and 243-298: every step of a call in progress on a
\* core orchestrator; but for respond, the statements of orchestrator.py
CoreStep(i) ==
    \/ StreamFirst(i)
    \/ StreamResumeSeed(i)
    \/ StreamResumeTurn(i)
    \/ LoopExit(i)
    \/ SelectFails(i)
    \/ SkipHuman(i)
    \/ CallRespond(i)
    \/ CoreRespondReturns(i)
    \/ CoreRespondRaises(i)
    \/ CheckTermination(i)

\* instance 2 is a core orchestrator with core participants, instance 1 one
\* of orchestrator.py with participants of base.py made from the same
\* arguments; instance 2 is called first, and when its call has ended
\* instance 1 is given the same call, seed and backend outcomes
InitCore ==
    /\ \E l \in AgentLists, m \in 1..MaxTurns :
          Constructed([i \in Inst |-> l], [i \in Inst |-> m])
    /\ backend = "deterministic"
    /\ ApiIdle

NextCore ==
    \/ \E seed \in Seeds : Run(2, seed) /\ UNCHANGED api
    \/ \E seed \in Seeds : RunStreaming(2, seed) /\ UNCHANGED api
    \/ CoreStep(2) /\ UNCHANGED api
    \/ /\ pc[2] \in {"done", "raised"}
       /\ op[2] = "run"
       /\ Run(1, initial_message[2])
       /\ UNCHANGED api
    \/ /\ pc[2] \in {"done", "raised"}
       /\ op[2] = "run_streaming"
       /\ RunStreaming(1, initial_message[2])
       /\ UNCHANGED api
    \/ Step(1) /\ UNCHANGED api

SpecCore == InitCore /\ [][NextCore]_vars

(***************************************************************************)
(* Agent.respond called directly: two autonomous participants are each     *)
(* handed the same history, any list of messages with 'agent' and          *)
(* 'message' keys, and build their messages array (base.py line 147).      *)
(***************************************************************************)
MaxHistory == 3

HistoryMessages ==
    [agent : {p.name : p \in People}, message : {TxtHi, TxtOk}]

Histories == UNION {[1..n -> HistoryMessages] : n \in 0..MaxHistory}

InitPrompt ==
    /\ \E p, q \in {a \in People : ~IsHumanAgent(a)} :
          agents = [i \in Inst |-> IF i = 1 THEN <<p>> ELSE <<q>>]
    /\ \E h \in Histories : conversation_history = [i \in Inst |-> h]
    /\ max_turns = [i \in Inst |-> 1]
    /\ op = [i \in Inst |-> "none"]
    /\ pc = [i \in Inst |-> "idle"]
    /\ initial_message = [i \in Inst |-> NoSeed]
    /\ current_agent_index = [i \in Inst |-> 0]
    /\ turn = [i \in Inst |-> 0]
    /\ yielded = [i \in Inst |-> <<>>]
    /\ error = [i \in Inst |-> NoError]
    /\ backend_calls = [i \in Inst |-> 0]
    /\ skipped = [i \in Inst |-> 0]
    /\ answers = [i \in Inst |-> <<>>]
    /\ request = [i \in Inst |-> <<>>]
    /\ log_at_call = [i \in Inst |-> <<>>]
    /\ backend = "any"
    /\ ApiIdle

\* respond up to line 147: messages = self._build_messages(history)
BuildMessages(i) ==
    /\ request[i] = <<>>
    /\ request' = [request EXCEPT
          ![i] = build_messages(agents[i][1], conversation_history[i])]
    /\ UNCHANGED <<agents, max_turns, conversation_history, op, pc,
                   initial_message, current_agent_index, turn, yielded, error,
                   backend_calls, skipped, answers, log_at_call, backend>>
    /\ UNCHANGED api

NextPrompt ==
    \/ BuildMessages(1)
    \/ BuildMessages(2)

SpecPrompt == InitPrompt /\ [][NextPrompt]_vars

(***************************************************************************)
(* _should_terminate on its own: any log of up to MaxTermLog messages, by  *)
(* either of two participants, is checked once (lines 155-160).            *)
(***************************************************************************)
MaxTermLog == 2

TxtIdeal == <<"i", "d", "e", "a", "l">>
TxtAgreedUp == <<"A", "G", "R", "E", "E", "D">>
TxtAgreement == <<"A", "g", "r", "e", "e", "m", "e", "n", "t">>
TxtSigned == <<"s", "i", "g", "n", "e", "d", ".">>
TxtApprovedUp == <<"A", "P", "P", "R", "O", "V", "E", "D">>
TxtContract == <<"C", "o", "n", "t", "r", "a", "c", "t">>
TxtGoodbye == <<"G", "o", "o", "d", "B", "y", "e">>
TxtThanks ==
    <<"T", "h", "a", "n", "k", " ", "Y", "o", "u", " ", "F", "o", "r", " ",
      "Y", "o", "u", "r", " ", "T", "i", "m", "e">>
TxtAgree == <<"a", "g", "r", "e", "e">>
TxtDeAl == <<"d", "e", " ", "a", "l">>
TxtThankYou == <<"t", "h", "a", "n", "k", " ", "y", "o", "u">>
TxtSign == <<"s", "i", "g", "n">>

TermTexts ==
    {TxtEmpty, TxtHi, TxtDealReply, TxtIdeal, TxtAgreedUp, TxtAgreement,
     TxtSigned, TxtApprovedUp, TxtContract, TxtGoodbye, TxtThanks, TxtAgree,
     TxtDeAl, TxtThankYou, TxtSign}

TermMessages ==
    {TurnMessage(a, 1, t) : a \in {Sarah, Yuki}, t \in TermTexts}

TermLogs == UNION {[1..n -> TermMessages] : n \in 0..MaxTermLog}

InitTerm ==
    /\ agents = [i \in Inst |-> <<Sarah, Yuki>>]
    /\ max_turns = [i \in Inst |-> 1]
    /\ \E h \in TermLogs :
          conversation_history = [i \in Inst |-> IF i = 1 THEN h ELSE <<>>]
    /\ op = [i \in Inst |-> IF i = 1 THEN "run" ELSE "none"]
    /\ pc = [i \in Inst |-> IF i = 1 THEN "check" ELSE "idle"]
    /\ initial_message = [i \in Inst |-> NoSeed]
    /\ current_agent_index = [i \in Inst |-> 0]
    /\ turn = [i \in Inst |-> IF i = 1 THEN 1 ELSE 0]
    /\ yielded = [i \in Inst |-> <<>>]
    /\ error = [i \in Inst |-> NoError]
    /\ backend_calls = [i \in Inst |-> 0]
    /\ skipped = [i \in Inst |-> 0]
    /\ answers = [i \in Inst |-> <<>>]
    /\ request = [i \in Inst |-> <<>>]
    /\ log_at_call = [i \in Inst |-> <<>>]
    /\ backend = "any"
    /\ ApiIdle

NextTerm == CheckTermination(1) /\ UNCHANGED api

SpecTerm == InitTerm /\ [][NextTerm]_vars

(***************************************************************************)
(* Two orchestrators, each constructed with its own participant list and   *)
(* turn limit, each given one call of run or of run_streaming; their steps *)
(* interleave in any order (two event streams served at the same time).    *)
(***************************************************************************)
IsoMaxTurns == 2

IsoLists == {<<Sarah>>, <<Sarah, Yuki>>, <<Hana, Yuki>>}

IsoSeeds == {NoSeed, SeedOf(TxtHi)}

InitIso ==
    /\ \E l \in [Inst -> IsoLists], m \in [Inst -> 1..IsoMaxTurns] :
          Constructed(l, m)
    /\ backend = "any"
    /\ ApiIdle

NextIso ==
    \/ \E i \in Inst, seed \in IsoSeeds : Run(i, seed) /\ UNCHANGED api
    \/ \E i \in Inst, seed \in IsoSeeds :
          RunStreaming(i, seed) /\ UNCHANGED api
    \/ \E i \in Inst : Step(i) /\ UNCHANGED api

SpecIso == InitIso /\ [][NextIso]_vars

(***************************************************************************)
(* The HTTP layer (api/main.py): an in-memory store of conversation dicts  *)
(* keyed by identifier, and four routes.  start-conversation builds an     *)
(* orchestrator and hands its run_streaming generator to event_stream,     *)
(* which the server drains one event at a time.                            *)
(***************************************************************************)
ApiMaxTurns == 2

TxtServers == <<"s", "e", "r", "v", "e", "r", "s">>
TxtLetsDiscuss ==
    <<"L", "e", "t", "'", "s", " ", "d", "i", "s", "c", "u", "s", "s", ":",
      " ">>

\* ConversationRequest (api/models.py); no field is validated
Requests ==
    [scenario : {TxtServers}, client : {"Toyota", "Honda"},
     num_agents : {0, 1, 2, 6}, max_turns : 1..ApiMaxTurns]

Lisa == [name |-> "Lisa", company |-> "HPE", role |-> "Account Manager",
         human |-> FALSE]
Ken == [name |-> "Ken", company |-> "Toyota", role |-> "CFO",
        human |-> FALSE]

\* create_agent, lines 19-25: the table of participants for a client
agent_configs(client) ==
    <<Sarah,
      [Yuki EXCEPT !.company = client],
      [Marcus EXCEPT !.company = client],
      Lisa,
      [Ken EXCEPT !.company = client]>>

\* create_agent(index, client), for an index the table has
create_agent(index, client) == agent_configs(client)[index + 1]

\* raise HTTPException(status_code=404, detail="Conversation not found")
NotFound(o, c) ==
    [op |-> o, id |-> c, code |-> 404,
     body |-> [detail |-> "Conversation not found"]]

\* variant: the stored dict takes the defaults of ConversationRequest
NewConversation_defaults(req) ==
    [scenario |-> req.scenario, client |-> "Toyota", num_agents |-> 2,
     max_turns |-> 5, status |-> "created", messages |-> <<>>]

\* the dict create_conversation stores (created_at left out)
NewConversation(req) ==
    [scenario |-> req.scenario, client |-> req.client,
     num_agents |-> req.num_agents, max_turns |-> req.max_turns,
     status |-> "created", messages |-> <<>>]

\* what every step of the orchestrator leaves alone once it is constructed
running == <<conversation_history, op, pc, initial_message,
             current_agent_index, turn, yielded, error, backend_calls,
             skipped, answers, request, log_at_call, backend>>

\* POST /conversations
CreateConversation(req) ==
    \E c \in ConvIds \ DOMAIN requested :
        /\ conversations' = conversations \cup {c}
        /\ records' = [records EXCEPT ![c] = NewConversation(req)]
        /\ requested' = (c :> req) @@ requested
        /\ response' = [op |-> "create", id |-> c, code |-> 200,
                        body |-> [conversation_id |-> c]]
        /\ UNCHANGED <<orch, started, stream_conv, es_pc, events>>

\* GET /conversations/{conv_id}
GetConversation(c) ==
    /\ response' = IF c \in conversations
                   THEN [op |-> "get", id |-> c, code |-> 200,
                         body |-> records[c]]
                   ELSE NotFound("get", c)
    /\ UNCHANGED <<orch, conversations, records, requested, started,
                   stream_conv, es_pc, events>>

\* POST /conversations/{conv_id}/start, up to the return at line 141; the
\* orchestrator it constructs is instance i
StartConversation(c, i) ==
    /\ c \in conversations => es_pc[i] = "none"
    /\ IF c \notin conversations
       THEN /\ response' = NotFound("start", c)
            /\ UNCHANGED <<orch, records, started, stream_conv, es_pc>>
       ELSE /\ records' = [records EXCEPT ![c].status = "running"]
            /\ started' = started \cup {c}
            /\ IF records[c].num_agents > Len(agent_configs(records[c].client))
               THEN /\ response' =
                          [op |-> "start", id |-> c, code |-> 500,
                           body |-> [detail |-> "Internal Server Error"]]
                    /\ UNCHANGED <<orch, stream_conv, es_pc>>
               ELSE /\ agents' =
                          [agents EXCEPT
                             ![i] = [k \in 1..records[c].num_agents |->
                                       create_agent(k - 1, records[c].client)]]
                    /\ max_turns' =
                          [max_turns EXCEPT ![i] = records[c].max_turns]
                    /\ stream_conv' = [stream_conv EXCEPT ![i] = c]
                    /\ es_pc' = [es_pc EXCEPT ![i] = "ready"]
                    /\ response' =
                          [op |-> "start", id |-> c, code |-> 200,
                           body |-> [media_type |-> "text/event-stream"]]
                    /\ UNCHANGED running
    /\ UNCHANGED <<conversations, requested, events>>

\* variant: every conversation is dropped from the store
DeleteConversation_all(c) ==
    /\ IF c \notin conversations
       THEN /\ response' = NotFound("delete", c)
            /\ UNCHANGED conversations
       ELSE /\ conversations' = {}
            /\ response' =
                  [op |-> "delete", id |-> c, code |-> 200,
                   body |-> [status |-> "deleted", conversation_id |-> c]]
    /\ UNCHANGED <<orch, records, requested, started, stream_conv, es_pc,
                   events>>

\* DELETE /conversations/{conv_id}
DeleteConversation(c) ==
    /\ IF c \notin conversations
       THEN /\ response' = NotFound("delete", c)
            /\ UNCHANGED conversations
       ELSE /\ conversations' = conversations \ {c}
            /\ response' =
                  [op |-> "delete", id |-> c, code |-> 200,
                   body |-> [status |-> "deleted", conversation_id |-> c]]
    /\ UNCHANGED <<orch, records, requested, started, stream_conv, es_pc,
                   events>>

\* event_stream, line 124: the call of run_streaming with the seed
EsBegin(i) ==
    /\ es_pc[i] = "ready"
    /\ RunStreaming(i, SeedOf(TxtLetsDiscuss \o
                              records[stream_conv[i]].scenario))
    /\ es_pc' = [es_pc EXCEPT ![i] = "streaming"]
    /\ UNCHANGED <<conversations, records, requested, started, stream_conv,
                   events, response>>

\* the steps run_streaming takes when event_stream asks for the next message;
\* create_agent makes no HumanAgent
EsNext(i) ==
    /\ es_pc[i] = "streaming"
    /\ Len(events[i]) = Len(yielded[i])
    /\ \/ StreamFirst(i)
       \/ StreamResumeSeed(i)
       \/ StreamResumeTurn(i)
       \/ LoopExit(i)
       \/ SelectFails(i)
       \/ CallRespond(i)
       \/ RespondReturns(i)
       \/ RespondRaises(i)
       \/ CheckTermination(i)
    /\ UNCHANGED api

\* variant: the message is sent but not stored
EsDeliver_unstored(i) ==
    /\ es_pc[i] = "streaming"
    /\ Len(events[i]) < Len(yielded[i])
    /\ events' = [events EXCEPT
          ![i] = Append(@, [data |-> yielded[i][Len(yielded[i])]])]
    /\ UNCHANGED <<orch, conversations, records, requested, started,
                   stream_conv, es_pc, response>>

\* variant: storing a message puts the conversation back into the store
EsDeliver_restoring(i) ==
    /\ es_pc[i] = "streaming"
    /\ Len(events[i]) < Len(yielded[i])
    /\ records' = [records EXCEPT
          ![stream_conv[i]].messages = Append(@, yielded[i][Len(yielded[i])])]
    /\ events' = [events EXCEPT
          ![i] = Append(@, [data |-> yielded[i][Len(yielded[i])]])]
    /\ conversations' = conversations \cup {stream_conv[i]}
    /\ UNCHANGED <<orch, requested, started, stream_conv, es_pc, response>>

\* event_stream, lines 126-129: store the message, send it as an event
EsDeliver(i) ==
    /\ es_pc[i] = "streaming"
    /\ Len(events[i]) < Len(yielded[i])
    /\ records' = [records EXCEPT
          ![stream_conv[i]].messages = Append(@, yielded[i][Len(yielded[i])])]
    /\ events' = [events EXCEPT
          ![i] = Append(@, [data |-> yielded[i][Len(yielded[i])]])]
    /\ UNCHANGED <<orch, conversations, requested, started, stream_conv,
                   es_pc, response>>

\* event_stream, line 132: the generator is exhausted
EsComplete(i) ==
    /\ es_pc[i] = "streaming"
    /\ pc[i] = "done"
    /\ Len(events[i]) = Len(yielded[i])
    /\ records' = [records EXCEPT ![stream_conv[i]].status = "completed"]
    /\ es_pc' = [es_pc EXCEPT ![i] = "ended"]
    /\ UNCHANGED <<orch, conversations, requested, started, stream_conv,
                   events, response>>

\* variant: a stream that raised is marked completed all the same
EsFail_completed(i) ==
    /\ es_pc[i] = "streaming"
    /\ pc[i] = "raised"
    /\ records' = [records EXCEPT ![stream_conv[i]].status = "completed"]
    /\ events' = [events EXCEPT
          ![i] = Append(@, [data |-> [error |-> error[i].what]])]
    /\ es_pc' = [es_pc EXCEPT ![i] = "ended"]
    /\ UNCHANGED <<orch, conversations, requested, started, stream_conv,
                   response>>

\* variant: a failure ends the stream without an error event
EsFail_silent(i) ==
    /\ es_pc[i] = "streaming"
    /\ pc[i] = "raised"
    /\ records' = [records EXCEPT
          ![stream_conv[i]] =
              ("error" :> error[i].what) @@ [@ EXCEPT !.status = "failed"]]
    /\ es_pc' = [es_pc EXCEPT ![i] = "ended"]
    /\ UNCHANGED <<orch, conversations, requested, started, stream_conv,
                   events, response>>

\* event_stream, lines 135-139: run_streaming raised
EsFail(i) ==
    /\ es_pc[i] = "streaming"
    /\ pc[i] = "raised"
    /\ records' = [records EXCEPT
          ![stream_conv[i]] =
              ("error" :> error[i].what) @@ [@ EXCEPT !.status = "failed"]]
    /\ events' = [events EXCEPT
          ![i] = Append(@, [data |-> [error |-> error[i].what]])]
    /\ es_pc' = [es_pc EXCEPT ![i] = "ended"]
    /\ UNCHANGED <<orch, conversations, requested, started, stream_conv,
                   response>>

\* any requests in any order; one start is accepted and its stream is drained
NextApi ==
    \/ \E req \in Requests : CreateConversation(req)
    \/ \E c \in ConvIds : GetConversation(c)
    \/ \E c \in ConvIds : StartConversation(c, 1)
    \/ \E c \in ConvIds : DeleteConversation(c)
    \/ EsBegin(1)
    \/ EsNext(1)
    \/ EsDeliver(1)
    \/ EsComplete(1)
    \/ EsFail(1)

InitApi ==
    /\ Constructed([i \in Inst |-> InertAgents], [i \in Inst |-> 1])
    /\ backend = "any"
    /\ ApiIdle

SpecApi == InitApi /\ [][NextApi]_vars

(***************************************************************************)
(* Properties.                                                             *)
(***************************************************************************)
Log == conversation_history[1]

\* a message appended by a turn (the seed has no generation_time)
IsGenerated(m) == "generation_time" \in DOMAIN m

\* the messages of a history that turns appended
Generated(history) == SelectSeq(history, IsGenerated)

Seeded == Truthy(initial_message[1])

Returned == op[1] = "run" /\ pc[1] = "done"

\* C1: a run on a fresh orchestrator that returns normally returns a log of
\* at most (1 if seeded else 0) + max_turns messages whose turn numbers are
\* strictly increasing from one message to the next.
C1_LogBound ==
    Returned =>
        /\ Len(Log) <= (IF Seeded THEN 1 ELSE 0) + max_turns[1]
        /\ \A k \in 1..(Len(Log) - 1) : Log[k].turn < Log[k + 1].turn

C1_Witness ==
    /\ Returned
    /\ Seeded
    /\ max_turns[1] >= 2
    /\ Len(Log) = 1 + max_turns[1]

\* the names of the first k autonomous participants met from index idx on,
\* going round the list
RECURSIVE Rotation(_, _, _)
Rotation(ags, idx, k) ==
    IF k = 0 \/ \A j \in 1..Len(ags) : IsHumanAgent(ags[j])
    THEN <<>>
    ELSE IF IsHumanAgent(ags[idx + 1])
    THEN Rotation(ags, (idx + 1) % Len(ags), k)
    ELSE <<ags[idx + 1].name>> \o Rotation(ags, (idx + 1) % Len(ags), k - 1)

Speakers(history) == [k \in 1..Len(history) |-> history[k].agent]

\* C2: in the log run returns, the speakers of the generated messages are
\* the autonomous participants in list order, cyclically, humans left out,
\* starting from slot 1 when seeded and slot 0 otherwise; the participant
\* list never changes.
C2_RoundRobin ==
    /\ [](Returned =>
            Speakers(Generated(Log)) =
                Rotation(agents[1], IF Seeded THEN 1 ELSE 0,
                         Len(Generated(Log))))
    /\ [][agents' = agents]_vars

C2_Witness ==
    /\ Returned
    /\ Seeded
    /\ Len(agents[1]) = 3
    /\ \E j \in 1..3 : IsHumanAgent(agents[1][j])
    /\ Len(Generated(Log)) >= 2

\* C3 as stated: whenever the termination predicate is true of message k of
\* the log, there is no message k+1.
C3_NoMessageAfterKeyword ==
    \A k \in 1..(Len(Log) - 1) : ~HasCompletionKeyword(Log[k].message)

\* C3 amended: whenever the termination predicate is true of a generated
\* message k, there is no message k+1, and from then on nothing is appended
\* and the backend is not invoked; the turn-0 seed is not checked.
C3_NoMessageAfterGeneratedKeyword ==
    /\ [](\A k \in 1..(Len(Log) - 1) :
            IsGenerated(Log[k]) => ~HasCompletionKeyword(Log[k].message))
    /\ [][(/\ Log # <<>>
           /\ IsGenerated(Log[Len(Log)])
           /\ HasCompletionKeyword(Log[Len(Log)].message))
          => (/\ conversation_history' = conversation_history
              /\ backend_calls' = backend_calls)]_vars

C3_Witness ==
    /\ pc[1] = "done"
    /\ turn[1] < max_turns[1]
    /\ Len(Log) >= 2
    /\ IsGenerated(Log[Len(Log)])
    /\ HasCompletionKeyword(Log[Len(Log)].message)

Ended(i) == pc[i] \in {"done", "raised"}

\* C4: for the same participants, seed, max_turns and backend outcomes, the
\* messages a fully consumed run_streaming yields are exactly the log run
\* returns, in order, and both end the same way (normally, or with the same
\* error after the same messages); whenever run_streaming has a backend call
\* in flight, every message appended so far has already been yielded.
C4_StreamingEqualsRun ==
    /\ (/\ op[1] = "run" /\ op[2] = "run_streaming"
        /\ Ended(1) /\ Ended(2)
        /\ answers[1] = answers[2])
       => /\ yielded[2] = conversation_history[1]
          /\ pc[2] = pc[1]
          /\ error[2] = error[1]
    /\ (op[2] = "run_streaming" /\ pc[2] = "respond")
       => yielded[2] = conversation_history[2]

C4_Witness ==
    /\ op[1] = "run" /\ op[2] = "run_streaming"
    /\ pc[1] = "raised" /\ pc[2] = "raised"
    /\ error[2] = ErrTimeout
    /\ answers[1] = answers[2]
    /\ Truthy(initial_message[2])
    /\ Len(yielded[2]) >= 3

Last(q) == q[Len(q)]

\* a backend call of instance 1 has made respond raise
Failed == \E k \in 1..Len(answers[1]) : ~respond(answers[1][k]).ok

\* C5: when respond fails at some turn of run, run ends at once with that
\* error; the log is what it was before the failing turn, nothing is appended
\* for that turn and the backend is not invoked again.
C5_FailFast ==
    /\ []((op[1] = "run" /\ Failed) =>
            /\ pc[1] = "raised"
            /\ ~respond(Last(answers[1])).ok
            /\ error[1] = respond(Last(answers[1])).error
            /\ backend_calls[1] = Len(answers[1])
            /\ Len(Generated(Log)) = Len(answers[1]) - 1
            /\ \A k \in 1..Len(Log) : Log[k].turn < turn[1])
    /\ [][(op[1] = "run" /\ ~Failed /\ Failed')
          => conversation_history' = conversation_history]_vars

C5_Witness ==
    /\ op[1] = "run"
    /\ pc[1] = "raised"
    /\ error[1] = ErrEmpty
    /\ Len(Generated(Log)) = 2
    /\ turn[1] = 3

\* C6: when the first backend call of run finds the backend unreachable, run
\* raises the transport error with no autonomous message appended: the log
\* is empty when unseeded and exactly the seed message when seeded.
C6_UnreachableBackend ==
    (/\ op[1] = "run"
     /\ answers[1] # <<>>
     /\ answers[1][1] = Unreachable)
    => /\ pc[1] = "raised"
       /\ error[1] = ErrConnect
       /\ Log = IF Seeded
                THEN <<SeedMessage(agents[1][1], initial_message[1].text)>>
                ELSE <<>>

C6_Witness ==
    /\ op[1] = "run"
    /\ answers[1] = <<Unreachable>>
    /\ Seeded
    /\ Len(Log) = 1
    /\ Log[1].turn = 0
    /\ pc[1] = "raised"

\* C7: the rotation index always lies in [0, number of participants).
C7_IndexInRange ==
    \A i \in Inst : current_agent_index[i] \in 0..(Len(agents[i]) - 1)

\* C8: a run whose participant list is a single human placeholder produces
\* no generated message, never invokes the backend, raises no error, and
\* ends after max_turns skipped rotation attempts.
C8_SingleHuman ==
    (/\ op[1] # "none"
     /\ Len(agents[1]) = 1
     /\ IsHumanAgent(agents[1][1]))
    => /\ Generated(Log) = <<>>
       /\ backend_calls[1] = 0
       /\ pc[1] # "raised"
       /\ pc[1] = "done" => skipped[1] = max_turns[1]

Started == op[1] # "none" /\ pc[1] \notin {"idle", "created"}

\* C9: with a (non-empty) seed the first message of the log is the seed:
\* turn 0, name, organization and role of the first participant, no
\* generation latency, and rotation starts at index 1; without a seed nothing
\* is appended before rotation, which starts at index 0; every other message
\* of the log carries a generation latency.
C9_SeedMessage ==
    Started =>
        /\ Seeded =>
              /\ Log # <<>>
              /\ Log[1] = [turn |-> 0, agent |-> agents[1][1].name,
                           company |-> agents[1][1].company,
                           role |-> agents[1][1].role,
                           message |-> initial_message[1].text]
              /\ ~IsGenerated(Log[1])
        /\ (turn[1] = 1 /\ pc[1] \in {"loop", "respond"}) =>
              /\ current_agent_index[1] = IF Seeded THEN 1 ELSE 0
              /\ Len(Log) = IF Seeded THEN 1 ELSE 0
        /\ \A k \in 1..Len(Log) :
              (k > 1 \/ ~Seeded) => (IsGenerated(Log[k]) /\ Log[k].turn >= 1)

C9_Witness ==
    /\ Seeded
    /\ IsHumanAgent(agents[1][1])
    /\ pc[1] = "respond"
    /\ turn[1] = 1
    /\ current_agent_index[1] = 1
    /\ Log[1].agent = agents[1][1].name

\* C10: max_turns bounds rotation attempts: generated messages plus human
\* skips never exceed max_turns and equal it when the loop runs out of
\* turns; a generated message's turn number is the number of the rotation
\* attempt (backend calls plus skips so far) that produced it.
C10_TurnBudget ==
    /\ [](Len(Generated(Log)) + skipped[1] <= max_turns[1])
    /\ []((pc[1] = "done" /\ turn[1] > max_turns[1]) =>
             Len(Generated(Log)) + skipped[1] = max_turns[1])
    /\ [][(/\ Len(conversation_history'[1]) > Len(Log)
           /\ IsGenerated(Last(conversation_history'[1])))
          => Last(conversation_history'[1]).turn
                = backend_calls[1] + skipped[1]]_vars

C10_Witness ==
    /\ pc[1] = "done"
    /\ turn[1] > max_turns[1]
    /\ skipped[1] >= 1
    /\ Len(Generated(Log)) + skipped[1] = max_turns[1]
    /\ \E k \in 1..(Len(Log) - 1) : Log[k + 1].turn > Log[k].turn + 1

TwoAutonomous ==
    /\ Len(agents[1]) = 2
    /\ ~IsHumanAgent(agents[1][1])
    /\ ~IsHumanAgent(agents[1][2])

\* the log C11 describes: the seed by P0 at turn 0, one reply by P1 at turn 1
SeedAndOneReply ==
    /\ Len(Log) = 2
    /\ Log[1].turn = 0 /\ Log[1].agent = agents[1][1].name
    /\ Log[1].message = initial_message[1].text
    /\ Log[2].turn = 1 /\ Log[2].agent = agents[1][2].name
    /\ IsGenerated(Log[2])

\* C11 as stated: two autonomous participants, a seed, max_turns = 1 and a
\* backend that answers: run returns the seed and one reply, and the rotation
\* index after the run is 0 whatever the reply says.
C11_IndexBackAtFirst ==
    (Returned /\ TwoAutonomous /\ Seeded /\ max_turns[1] = 1) =>
        /\ SeedAndOneReply
        /\ current_agent_index[1] = 0

\* C11 amended: the log is the seed and one reply; the rotation index after
\* the run is 0 when the reply holds no completion phrase and stays at 1 (the
\* replying participant) when it does.
C11_IndexAfterOneTurn ==
    (Returned /\ TwoAutonomous /\ Seeded /\ max_turns[1] = 1) =>
        /\ SeedAndOneReply
        /\ current_agent_index[1] =
              IF HasCompletionKeyword(Log[2].message) THEN 1 ELSE 0

C11_Witness ==
    /\ Returned /\ TwoAutonomous /\ Seeded /\ max_turns[1] = 1
    /\ agents[1] = <<Sarah, Yuki>>
    /\ Log[2].message = TxtOk
    /\ current_agent_index[1] = 0

\* C12: when respond fails at some turn of run_streaming, the consumer has
\* received exactly the messages appended before that turn, in order, the
\* request in progress raises that error, and nothing is yielded afterwards.
C12_StreamingFailure ==
    /\ []((op[1] = "run_streaming" /\ Failed) =>
            /\ pc[1] = "raised"
            /\ error[1] = respond(Last(answers[1])).error
            /\ yielded[1] = Log
            /\ Len(Generated(Log)) = Len(answers[1]) - 1
            /\ \A k \in 1..Len(Log) : Log[k].turn < turn[1])
    /\ [][(op[1] = "run_streaming" /\ Failed') => yielded' = yielded]_vars

C12_Witness ==
    /\ op[1] = "run_streaming"
    /\ pc[1] = "raised"
    /\ error[1] = ErrConnect
    /\ Seeded
    /\ Len(yielded[1]) = 3

\* the rotation attempts made so far, by the position of the call
Attempts ==
    IF turn[1] = 0 THEN 0
    ELSE IF \/ pc[1] \in {"respond", "check", "yielded"}
            \/ pc[1] = "raised" /\ Failed
            \/ pc[1] = "done" /\ turn[1] <= max_turns[1]
    THEN turn[1]
    ELSE turn[1] - 1

\* C13: the backend is invoked exactly once per rotation attempt of an
\* autonomous participant and never for a skipped human turn, so at most
\* max_turns times; after the first failed invocation it is not invoked again.
C13_NoRetry ==
    /\ [](/\ backend_calls[1] <= max_turns[1]
          /\ backend_calls[1] + skipped[1] = Attempts
          /\ Failed => /\ backend_calls[1] = Len(answers[1])
                       /\ \A k \in 1..(Len(answers[1]) - 1) :
                             respond(answers[1][k]).ok)
    /\ [][backend_calls'[1] # backend_calls[1] =>
            /\ backend_calls'[1] = backend_calls[1] + 1
            /\ ~IsHumanAgent(agents[1][current_agent_index[1] + 1])
            /\ skipped' = skipped
            /\ turn' = turn]_vars

C13_Witness ==
    /\ pc[1] = "raised"
    /\ Failed
    /\ skipped[1] >= 1
    /\ backend_calls[1] = 2

\* the errors the specification names: Timeout, TransportError and
\* MalformedResponse (reply without the content field, or empty reply)
NamedErrors == {ErrTimeout, ErrConnect, ErrInvalid, ErrEmpty}

\* C14: for every backend reply respond either returns the non-empty trimmed
\* reply text or fails with Timeout, TransportError or MalformedResponse, and
\* the orchestrator passes the error on unchanged.
C14_FourOutcomes ==
    /\ \A k \in 1..Len(answers[1]) :
          LET r == respond(answers[1][k])
          IN  \/ r.ok /\ r.message # <<>> /\ r.message = Strip(r.message)
              \/ ~r.ok /\ r.error \in NamedErrors
    /\ Failed => error[1] = respond(Last(answers[1])).error

\* the tag C15 prescribes for a history message in the prompt of a
RoleFor(a, msg) == IF msg.agent = a.name THEN "assistant" ELSE "user"

\* C15: the prompt a participant builds is one system entry followed by one
\* entry per history message, in order, with the same text, tagged assistant
\* exactly when the speaker's name is the participant's and user otherwise;
\* two differently named participants tag a message oppositely whenever one
\* of them is its speaker.
C15_RoleTagging ==
    /\ \A i \in Inst :
          request[i] # <<>> =>
              LET h == conversation_history[i]
              IN  /\ Len(request[i]) = Len(h) + 1
                  /\ request[i][1].role = "system"
                  /\ \A k \in 1..Len(h) :
                        /\ request[i][k + 1].content = h[k].message
                        /\ request[i][k + 1].role = RoleFor(agents[i][1], h[k])
    /\ (/\ request[1] # <<>> /\ request[2] # <<>>
        /\ agents[1][1].name # agents[2][1].name)
       => \A k \in 1..Len(conversation_history[1]) :
             conversation_history[1][k].agent
                 \in {agents[1][1].name, agents[2][1].name}
             => request[1][k + 1].role # request[2][k + 1].role

C15_Witness ==
    /\ agents[1] = <<Sarah>> /\ agents[2] = <<Yuki>>
    /\ conversation_history[1] =
          <<[agent |-> "Sarah", message |-> TxtHi],
            [agent |-> "Yuki", message |-> TxtOk],
            [agent |-> "Hana", message |-> TxtOk]>>
    /\ request[1] # <<>> /\ request[2] # <<>>
    /\ request[1][2].role = "assistant" /\ request[2][2].role = "user"
    /\ request[1][3].role = "user" /\ request[2][3].role = "assistant"
    /\ request[1][4].role = "user" /\ request[2][4].role = "user"

(***************************************************************************)
(* The HTTP layer                                                          *)
(***************************************************************************)
\* the status changes a conversation dict may go through
StatusSteps ==
    {<<"none", "created">>, <<"created", "running">>,
     <<"running", "completed">>, <<"running", "failed">>}

\* C16: a conversation whose one accepted start is streamed to the end has
\* status created, then running, then completed or failed, never in another
\* order and never changed afterwards; it is running while the stream is
\* open, and once the stream has ended it is completed exactly when
\* run_streaming finished without raising and failed exactly when it raised.
C16_RunLifecycle ==
    /\ [][\A c \in ConvIds :
             records'[c].status # records[c].status =>
                 <<records[c].status, records'[c].status>> \in StatusSteps]_vars
    /\ [](\A i \in Inst :
             /\ es_pc[i] \in {"ready", "streaming"} =>
                    records[stream_conv[i]].status = "running"
             /\ es_pc[i] = "ended" =>
                    /\ records[stream_conv[i]].status \in
                           {"completed", "failed"}
                    /\ records[stream_conv[i]].status = "completed" <=>
                           pc[i] = "done"
                    /\ records[stream_conv[i]].status = "failed" <=>
                           pc[i] = "raised")

\* a stream ended as completed because the turn limit was used up
C16_Witness ==
    /\ es_pc[1] = "ended"
    /\ records[stream_conv[1]].status = "completed"
    /\ turn[1] > max_turns[1]
    /\ Len(records[stream_conv[1]].messages) = 1 + max_turns[1]

\* the messages of the events that are not error events, in order
DataMessages(ev) ==
    LET d == SelectSeq(ev, LAMBDA e : "error" \notin DOMAIN e.data)
    IN  [k \in 1..Len(d) |-> d[k].data]

\* C17: once the stream of a started conversation has ended, the messages
\* stored for it (what get-conversation returns while it is in the store)
\* are exactly the messages of the non-error events that were streamed, in
\* the same order and number.
C17_StoredEqualsStreamed ==
    \A i \in Inst :
        (es_pc[i] = "ended" /\ stream_conv[i] \in conversations) =>
            records[stream_conv[i]].messages = DataMessages(events[i])

\* a stream that sent two messages and then an error event
C17_Witness ==
    /\ es_pc[1] = "ended"
    /\ stream_conv[1] \in conversations
    /\ Len(events[1]) = 3
    /\ "error" \in DOMAIN events[1][3].data
    /\ Len(records[stream_conv[1]].messages) = 2

\* C18: get, start and delete on an identifier that is not in the store
\* answer 404 and leave the store as it was; delete on one that is in the
\* store removes that entry and no other, answers 'deleted' with the
\* identifier, and the identifier is never in the store again (so a later
\* get on it answers 404).
C18_AbsentAndDelete ==
    [][/\ \A c \in ConvIds \ conversations :
              (/\ response' # response
               /\ response'.id = c
               /\ response'.op \in {"get", "start", "delete"}) =>
                  /\ response' = [op |-> response'.op, id |-> c, code |-> 404,
                                  body |-> [detail |->
                                               "Conversation not found"]]
                  /\ conversations' = conversations
                  /\ records' = records
       /\ \A c \in conversations :
              (/\ response' # response
               /\ response'.id = c
               /\ response'.op = "delete") =>
                  /\ conversations' = conversations \ {c}
                  /\ records' = records
                  /\ response'.code = 200
                  /\ response'.body =
                        [status |-> "deleted", conversation_id |-> c]
       /\ \A c \in DOMAIN requested \ conversations : c \notin conversations'
      ]_vars

\* get answered 404 for a deleted conversation while another one is stored
C18_Witness ==
    /\ conversations # {}
    /\ response.op = "get"
    /\ response.code = 404
    /\ response.id \in DOMAIN requested

\* what get-conversation shows of a conversation made from a request
CreatedView(req) ==
    [scenario |-> req.scenario, client |-> req.client,
     num_agents |-> req.num_agents, max_turns |-> req.max_turns,
     status |-> "created", messages |-> <<>>]

\* C19: create-conversation adds exactly one entry, under an identifier never
\* used before, with status 'created', no messages and the scenario, client,
\* num_agents and max_turns of the request, and leaves every other entry as
\* it was; get-conversation on it before any start returns those values with
\* status 'created'.
C19_Create ==
    /\ [][/\ (response' # response /\ response'.op = "create") =>
                 response'.id \in conversations' \ conversations
          /\ conversations' \ conversations # {} =>
                 \E c \in ConvIds \ DOMAIN requested :
                     /\ c \notin conversations
                     /\ conversations' = conversations \cup {c}
                     /\ c \in DOMAIN requested'
                     /\ records'[c] = CreatedView(requested'[c])
                     /\ \A d \in ConvIds \ {c} : records'[d] = records[d]
                     /\ response'.op = "create"
                     /\ response'.id = c
                     /\ response'.code = 200]_vars
    /\ []((/\ response.op = "get"
           /\ response.code = 200
           /\ response.id \notin started) =>
              response.body = CreatedView(requested[response.id]))

\* get answered for a conversation not started yet, after another was started
C19_Witness ==
    /\ response.op = "get"
    /\ response.code = 200
    /\ response.id \notin started
    /\ started # {}
    /\ response.body.num_agents = 1
    /\ response.body.client = "Honda"

(***************************************************************************)
(* Isolation of orchestrator instances                                     *)
(***************************************************************************)
\* the loop of run (lines 139-160) carried out by one orchestrator on its
\* own, as far as the backend outcomes ans take it: the log and the index
RECURSIVE SoloLoop(_, _, _, _, _, _)
SoloLoop(ags, mt, hist, idx, t, ans) ==
    IF ~InRange(t, mt) \/ idx >= Len(ags)
    THEN [history |-> hist, index |-> idx]
    ELSE IF IsHumanAgent(ags[idx + 1])
    THEN SoloLoop(ags, mt, hist, NextIndex(idx, Len(ags)), t + 1, ans)
    ELSE IF ans = <<>> \/ ~respond(Head(ans)).ok
    THEN [history |-> hist, index |-> idx]
    ELSE LET h == Append(hist, TurnMessage(ags[idx + 1], t,
                                           respond(Head(ans)).message))
         IN  IF should_terminate(h)
             THEN [history |-> h, index |-> idx]
             ELSE SoloLoop(ags, mt, h, NextIndex(idx, Len(ags)), t + 1,
                           Tail(ans))

\* run (lines 131-163) by one orchestrator on its own
Solo(ags, mt, seed, ans) ==
    SoloLoop(ags, mt, add_initial_message(ags, <<>>, seed), StartIndex(seed),
             1, ans)

\* the log and the rotation index of instance i
Own(i) == <<conversation_history[i], current_agent_index[i]>>

\* C20: with the steps of two orchestrators interleaved in any order, the log
\* and the rotation index of each are what that orchestrator produces on its
\* own from its participants, turn limit, seed and backend outcomes, whenever
\* it waits for the backend or has ended; and no step changes the log or the
\* index of more than one instance.
C20_Isolation ==
    /\ [](\A i \in Inst :
             pc[i] \in {"respond", "done", "raised"} =>
                 LET alone == Solo(agents[i], max_turns[i],
                                   initial_message[i], answers[i])
                 IN  /\ conversation_history[i] = alone.history
                     /\ current_agent_index[i] = alone.index)
    /\ [][\A i \in Inst :
             Own(i)' # Own(i) => \A j \in Inst \ {i} : Own(j)' = Own(j)]_vars

\* two streams wait for the backend at once, each after a reply it has
\* logged, and their logs differ
C20_Witness ==
    /\ pc[1] = "respond" /\ pc[2] = "respond"
    /\ op[1] = "run_streaming" /\ op[2] = "run_streaming"
    /\ Len(answers[1]) = 1 /\ Len(answers[2]) = 1
    /\ Len(conversation_history[1]) = 2
    /\ Len(conversation_history[2]) = 1
    /\ conversation_history[1][2] # conversation_history[2][1]

(***************************************************************************)
(* The rotation index and the termination check                            *)
(***************************************************************************)
\* the index that follows idx in a rotation over n participants
Successor(idx, n) == (idx + 1) % n

\* a step that ends a rotation attempt of instance 1: a skip, or the
\* termination check after a successful turn
EndsAttempt ==
    \/ skipped'[1] # skipped[1]
    \/ pc[1] = "check" /\ pc'[1] # "check"

\* C21 as stated: the rotation index advances by +1 modulo the number of
\* participants after every turn attempt, the successful turn on which the
\* run stops included.
C21_AdvanceAfterEveryAttempt ==
    [][EndsAttempt =>
          current_agent_index'[1] =
              Successor(current_agent_index[1], Len(agents[1]))]_vars

\* C21, amended: the index advances by +1 modulo the number of participants
\* after a skipped human turn and after a successful turn that does not stop
\* the run; after a successful turn on which the termination predicate stops
\* the run it keeps its value.
C21_AdvanceUnlessStopped ==
    [][EndsAttempt =>
          current_agent_index'[1] =
              IF pc[1] = "check" /\ should_terminate(Log)
              THEN current_agent_index[1]
              ELSE Successor(current_agent_index[1], Len(agents[1]))]_vars

\* a run skipped a human, went on after a reply and stopped on a later one
C21_Witness ==
    /\ pc[1] = "done"
    /\ skipped[1] >= 1
    /\ Len(Generated(Log)) >= 2
    /\ should_terminate(Log)
    /\ Len(agents[1]) = 3

\* the position in the list of the participant named in a message
Speaker(i, m) == CHOOSE k \in 1..Len(agents[i]) : agents[i][k].name = m.agent

\* C22: the termination predicate is evaluated only right after a successful
\* append of the current turn (never after a skip, never on the seed alone);
\* when it is true the loop stops without advancing, so at the end of such a
\* run the rotation index is the index of the participant who spoke the
\* terminating message.
C22_StopWithoutAdvancing ==
    /\ [](pc[1] = "check" =>
             /\ Log # <<>>
             /\ IsGenerated(Last(Log))
             /\ Last(Log).turn = turn[1]
             /\ Len(answers[1]) = backend_calls[1]
             /\ respond(Last(answers[1])).ok)
    /\ [][(pc[1] = "check" /\ pc'[1] = "done") =>
             /\ should_terminate(Log)
             /\ current_agent_index'[1] = current_agent_index[1]]_vars
    /\ []((/\ pc[1] = "done"
           /\ Generated(Log) # <<>>
           /\ should_terminate(Log)) =>
              current_agent_index[1] + 1 = Speaker(1, Last(Log)))

\* a run stopped on the reply of the second of three participants
C22_Witness ==
    /\ pc[1] = "done"
    /\ Len(agents[1]) = 3
    /\ Generated(Log) # <<>>
    /\ should_terminate(Log)
    /\ current_agent_index[1] = 1
    /\ Speaker(1, Last(Log)) = 2

(***************************************************************************)
(* run_streaming and its consumer                                          *)
(***************************************************************************)
Streaming == op[1] = "run_streaming"

\* the generator is suspended on a yield
OnYield == Streaming /\ pc[1] \in {"seed_yielded", "yielded"}

\* the backend calls of instance 1 that made respond return a text
Successes == SelectSeq(answers[1], LAMBDA o : respond(o).ok)

\* C23: whenever run_streaming is suspended on a yield, the yielded message
\* is the last element of the log and as many messages were yielded as the
\* log holds; a turn's message is yielded before the termination check and
\* the index advance of that turn (turn and index are still the speaker's,
\* and the check is entered from the yield only), the seed before the index
\* is set; one message is yielded per successful turn.
C23_YieldAfterAppend ==
    /\ [](OnYield =>
             /\ yielded[1] # <<>>
             /\ Last(yielded[1]) = Last(Log)
             /\ Len(yielded[1]) = Len(Log))
    /\ []((Streaming /\ pc[1] = "yielded") =>
             /\ IsGenerated(Last(Log))
             /\ Last(Log).turn = turn[1]
             /\ current_agent_index[1] + 1 = Speaker(1, Last(Log)))
    /\ []((Streaming /\ pc[1] = "seed_yielded") =>
             /\ ~IsGenerated(Last(Log))
             /\ turn[1] = 0
             /\ current_agent_index[1] = 0)
    /\ [][(Streaming /\ pc'[1] = "check" /\ pc[1] # "check") =>
             pc[1] = "yielded"]_vars
    /\ [](Streaming => Len(Generated(yielded[1])) = Len(Successes))

\* suspended on the yield of a second reply that holds a completion phrase
C23_Witness ==
    /\ Streaming
    /\ pc[1] = "yielded"
    /\ Len(yielded[1]) = 3
    /\ should_terminate(Log)

\* the steps of the generator's body that are not a resumption by the consumer
BodySteps ==
    \/ LoopExit(1)
    \/ SelectFails(1)
    \/ SkipHuman(1)
    \/ CallRespond(1)
    \/ RespondReturns(1)
    \/ RespondRaises(1)
    \/ CheckTermination(1)

\* C24: run_streaming is driven by its consumer only: before the first
\* request nothing is appended, yielded or asked of the backend; while it is
\* suspended (before the first request, or on a yield) no step of its body
\* can happen, and the backend calls made so far are as many as the
\* generated messages among those yielded.
C24_ConsumerDriven ==
    /\ (Streaming /\ pc[1] = "created") =>
           /\ Log = <<>>
           /\ yielded[1] = <<>>
           /\ backend_calls[1] = 0
    /\ (Streaming /\ pc[1] \in {"created", "seed_yielded", "yielded"}) =>
           /\ ~ENABLED BodySteps
           /\ backend_calls[1] = Len(Generated(yielded[1]))

\* a consumer that stopped asking after the seed and two replies
C24_Witness ==
    /\ Streaming
    /\ pc[1] = "yielded"
    /\ Len(yielded[1]) = 3
    /\ backend_calls[1] = 2
    /\ ~should_terminate(Log)

(***************************************************************************)
(* Termination of a call                                                   *)
(***************************************************************************)
\* C25: when every respond call returns or raises and the consumer keeps
\* requesting, a call of run or run_streaming ends (normally or with an
\* error) after at most max_turns rotation attempts; once it has ended it
\* yields no further message and does nothing more.
C25_Finite ==
    /\ (op[1] # "none") ~> Ended(1)
    /\ [](Attempts <= max_turns[1])
    /\ [](backend_calls[1] + skipped[1] <= max_turns[1])
    /\ [][Ended(1) => (yielded'[1] = yielded[1] /\ Log' = Log /\ pc' = pc)]_vars

\* a stream ended after its turn limit was used up by two replies and a skip
C25_Witness ==
    /\ Streaming
    /\ pc[1] = "done"
    /\ turn[1] > max_turns[1]
    /\ max_turns[1] = 3
    /\ skipped[1] = 1
    /\ Len(yielded[1]) = 3

(***************************************************************************)
(* The termination predicate                                               *)
(***************************************************************************)
\* the eight completion phrases
EightPhrases ==
    {<<"d", "e", "a", "l">>,
     <<"a", "g", "r", "e", "e", "d">>,
     <<"a", "g", "r", "e", "e", "m", "e", "n", "t">>,
     <<"s", "i", "g", "n", "e", "d">>,
     <<"a", "p", "p", "r", "o", "v", "e", "d">>,
     <<"c", "o", "n", "t", "r", "a", "c", "t">>,
     <<"g", "o", "o", "d", "b", "y", "e">>,
     <<"t", "h", "a", "n", "k", " ", "y", "o", "u", " ", "f", "o", "r", " ",
       "y", "o", "u", "r", " ", "t", "i", "m", "e">>}

\* phrase occurs in text at some offset, letter case of the text aside
Mentions(text, phrase) ==
    \E off \in 0..(Len(text) - Len(phrase)) :
        \A k \in 1..Len(phrase) : LowerChar(text[off + k]) = phrase[k]

\* C26: the termination predicate is false on an empty log and otherwise true
\* exactly when the text of the last message contains, case-insensitively,
\* one of the eight completion phrases, whatever the earlier messages and the
\* other fields of the last message are; evaluating it changes neither the
\* log nor what was yielded or asked of the backend.
C26_TerminationPredicate ==
    [][pc[1] = "check" =>
          /\ pc'[1] = "done" <=>
                 /\ Log # <<>>
                 /\ \E p \in EightPhrases : Mentions(Last(Log).message, p)
          /\ conversation_history' = conversation_history
          /\ yielded' = yielded
          /\ backend_calls' = backend_calls]_vars

\* the check said stop on 'Thank You For Your Time' after a plain message
C26_Witness ==
    /\ pc[1] = "done"
    /\ Len(Log) = 2
    /\ Log[1].message = TxtHi
    /\ Log[2].message = TxtThanks

(***************************************************************************)
(* The log                                                                 *)
(***************************************************************************)
\* the texts of a backend request that follow the system entry
HandedTexts(req) == [k \in 1..(Len(req) - 1) |-> req[k + 1].content]

\* the texts of a log
Texts(history) == [k \in 1..Len(history) |-> history[k].message]

\* the texts a call has put in the log: the seed, if any, then one per
\* backend call that made respond return
TextsSoFar ==
    (IF Seeded THEN <<initial_message[1].text>> ELSE <<>>) \o
    [k \in 1..Len(Successes) |-> respond(Successes[k]).message]

\* C27: at every rotation attempt by an autonomous participant the history
\* handed to respond is the whole log as it stands: the seed (if any) and
\* every message generated in earlier turns, in append order, nothing else.
C27_WholeLogHanded ==
    pc[1] = "respond" =>
        /\ Len(request[1]) = 1 + Len(Log)
        /\ HandedTexts(request[1]) = Texts(Log)
        /\ Texts(Log) = TextsSoFar
        /\ \A k \in 1..Len(Log) :
               request[1][k + 1].role =
                   IF Log[k].agent =
                         agents[1][current_agent_index[1] + 1].name
                   THEN "assistant"
                   ELSE "user"

\* the third participant is asked, after a seed and two replies
C27_Witness ==
    /\ pc[1] = "respond"
    /\ Seeded
    /\ Len(request[1]) = 4
    /\ Len(Generated(Log)) = 2

\* s is an initial part of t
IsPrefix(s, t) == Len(s) <= Len(t) /\ SubSeq(t, 1, Len(s)) = s

\* C28: the log is append-only during a run: every step leaves the messages
\* already in it unchanged and in place and adds at most one at the end; a
\* skip, a termination check and a failed turn leave it as it is.
C28_AppendOnly ==
    [][/\ IsPrefix(Log, Log')
       /\ Len(Log') <= Len(Log) + 1
       /\ (\/ skipped'[1] # skipped[1]
           \/ pc[1] = "check"
           \/ pc'[1] = "raised") => Log' = Log]_vars

\* a seeded log of three messages at the end of a run that skipped a human
C28_Witness ==
    /\ pc[1] = "done"
    /\ skipped[1] = 1
    /\ Len(Log) = 3
    /\ Seeded

\* the events of a stream that carry an error
ErrorEvents(ev) == SelectSeq(ev, LAMBDA e : "error" \in DOMAIN e.data)

\* C29: when run_streaming raises after k messages inside start-conversation,
\* the event stream is those k message events followed by exactly one error
\* event, and then ends; the conversation's status is 'failed', the text of
\* the error is recorded, and its stored messages are exactly those k.
C29_StreamFailure ==
    /\ [](\A i \in Inst :
             (es_pc[i] = "ended" /\ pc[i] = "raised") =>
                 /\ Len(events[i]) = Len(yielded[i]) + 1
                 /\ \A k \in 1..Len(yielded[i]) :
                        events[i][k] = [data |-> yielded[i][k]]
                 /\ Last(events[i]) = [data |-> [error |-> error[i].what]]
                 /\ Len(ErrorEvents(events[i])) = 1
                 /\ records[stream_conv[i]].status = "failed"
                 /\ "error" \in DOMAIN records[stream_conv[i]]
                 /\ records[stream_conv[i]].error = error[i].what
                 /\ records[stream_conv[i]].messages = yielded[i])
    /\ [][\A i \in Inst : es_pc[i] = "ended" => events'[i] = events[i]]_vars

\* a stream failed on its second backend call, after the seed and one reply
C29_Witness ==
    /\ es_pc[1] = "ended"
    /\ pc[1] = "raised"
    /\ backend_calls[1] = 2
    /\ Len(events[1]) = 3
    /\ error[1] = ErrTimeout

(***************************************************************************)
(* agents.core and agents.orchestrator                                     *)
(***************************************************************************)
\* both orchestrators were given the same call and both calls have ended
BothEnded == op[1] = op[2] /\ Ended(1) /\ Ended(2)

\* C30 as stated: for the same participants, seed, max_turns and sequence
\* of backend outcomes, run and run_streaming of the orchestrator of
\* agents.core (instance 2) and of agents.orchestrator (instance 1) produce
\* the same log, the same yielded sequence, the same final rotation index
\* and the same outcome.
C30_CoreEqualsRefactored ==
    BothEnded =>
        /\ conversation_history[1] = conversation_history[2]
        /\ yielded[1] = yielded[2]
        /\ current_agent_index[1] = current_agent_index[2]
        /\ pc[1] = pc[2]
        /\ error[1] = error[2]

(***************************************************************************)
(* The prompt and the seed in a run                                        *)
(***************************************************************************)
\* C31 as stated: every prompt respond sends to the backend, whenever the
\* history is non-empty, ends with a user-tagged entry, never with one of
\* the participant's own (assistant-tagged) messages.
C31_PromptEndsWithUserTurn ==
    (pc[1] = "respond" /\ Log # <<>>) => Last(request[1]).role = "user"

\* some completion phrase occurs in the text
MentionsAPhrase(text) == \E p \in EightPhrases : Mentions(text, p)

\* the rotation attempts a call has made: backend calls, skips, and an
\* attempt that failed when the participant was selected
AttemptsMade ==
    backend_calls[1] + skipped[1] +
    (IF pc[1] = "raised" /\ error[1] = ErrIndex /\ ~Failed THEN 1 ELSE 0)

\* C32: in the log of one run on a fresh orchestrator no generated message
\* but the last contains a completion phrase; the seed is exempt: the run
\* ends only when the turn limit is used up, on a generated message with a
\* phrase, or on an error, and after a seed with a phrase the first rotation
\* attempt is still made.
C32_OnlyLastGeneratedHasPhrase ==
    /\ [](\A k \in 1..(Len(Log) - 1) :
             IsGenerated(Log[k]) => ~MentionsAPhrase(Log[k].message))
    /\ [][(pc'[1] = "done" /\ pc[1] # "done") =>
             \/ ~InRange(turn[1], max_turns[1])
             \/ /\ pc[1] = "check"
                /\ IsGenerated(Last(Log))
                /\ MentionsAPhrase(Last(Log).message)]_vars
    /\ []((/\ Ended(1)
           /\ Seeded
           /\ MentionsAPhrase(initial_message[1].text)) =>
              AttemptsMade >= 1)

\* a run went on for two replies after a seed that holds a completion phrase
C32_Witness ==
    /\ pc[1] = "done"
    /\ Seeded
    /\ MentionsAPhrase(Log[1].message)
    /\ Len(Log) = 3
    /\ MentionsAPhrase(Log[3].message)

\* the call has reached the head of its loop for the first time
AtFirstTurn ==
    /\ pc[1] = "loop"
    /\ turn[1] = 1
    /\ backend_calls[1] + skipped[1] = 0

\* the log holds a turn-0 message
HasSeedMessage == \E k \in 1..Len(Log) : Log[k].turn = 0

\* C37: the decision to append a seed and the choice of the starting index
\* agree: the log gains a turn-0 message exactly when rotation starts at
\* index 1; an absent seed and an empty-string seed are both no seed: nothing
\* is appended or yielded for them and rotation starts at index 0.
C37_SeedAndStartIndexAgree ==
    /\ AtFirstTurn => (HasSeedMessage <=> current_agent_index[1] = 1)
    /\ AtFirstTurn => current_agent_index[1] \in {0, 1}
    /\ (AtFirstTurn /\ initial_message[1] \in {NoSeed, SeedOf(TxtEmpty)}) =>
           /\ Log = <<>>
           /\ yielded[1] = <<>>
           /\ current_agent_index[1] = 0
    /\ ~HasSeedMessage => Len(SelectSeq(yielded[1], LAMBDA m : m.turn = 0)) = 0

\* a stream given the empty string as its seed is at its first turn
C37_Witness ==
    /\ AtFirstTurn
    /\ Streaming
    /\ initial_message[1] = SeedOf(TxtEmpty)
    /\ Len(agents[1]) = 2

(***************************************************************************)
(* Deleting a conversation while it streams                                *)
(***************************************************************************)
\* the identifiers that were handed out and are no longer in the store
Deleted == DOMAIN requested \ conversations

\* the stream's conversation was deleted and the stream has not ended
OrphanStream ==
    /\ es_pc[1] \in {"ready", "streaming"}
    /\ stream_conv[1] \in Deleted

\* the steps of event_stream
EsSteps ==
    EsBegin(1) \/ EsNext(1) \/ EsDeliver(1) \/ EsComplete(1) \/ EsFail(1)

\* C35: deleting a conversation while its stream is consumed does not bring
\* the entry back: the identifier stays out of the store and every later get
\* on it answers 404; the stream goes on (a step of it is always possible
\* until it ends) and ends as the run ends, completed after a normal end and
\* failed with the run's own error; its messages and final status go to the
\* removed record and the store's set of entries is not touched.
C35_DeleteDuringStream ==
    /\ [][\A c \in Deleted :
             /\ c \notin conversations'
             /\ (/\ response' # response
                 /\ response'.op = "get"
                 /\ response'.id = c) => response' = NotFound("get", c)]_vars
    /\ [](OrphanStream => ENABLED EsSteps)
    /\ []((es_pc[1] = "ended" /\ stream_conv[1] \in Deleted) =>
             /\ pc[1] \in {"done", "raised"}
             /\ pc[1] = "done" =>
                   /\ records[stream_conv[1]].status = "completed"
                   /\ ErrorEvents(events[1]) = <<>>
             /\ pc[1] = "raised" =>
                   /\ records[stream_conv[1]].status = "failed"
                   /\ records[stream_conv[1]].error = error[1].what
                   /\ error[1] \in NamedErrors \cup {ErrIndex}
             /\ records[stream_conv[1]].messages = yielded[1])
    /\ [][(/\ OrphanStream
            /\ \/ records'[stream_conv[1]] # records[stream_conv[1]]
               \/ events' # events) =>
             /\ conversations' = conversations
             /\ \A c \in conversations : records'[c] = records[c]]_vars

\* the conversation was deleted while its stream was running, a get on it
\* has answered 404, and the stream has stored two messages and goes on
C35_Witness ==
    /\ es_pc[1] = "streaming"
    /\ stream_conv[1] \in Deleted
    /\ response = NotFound("get", stream_conv[1])
    /\ Len(records[stream_conv[1]].messages) = 2
    /\ pc[1] = "loop"

(***************************************************************************)
(* start_conversation with a client that may stop reading                  *)
(***************************************************************************)
\* the client stops reading after a message (ui/main.py breaks out of its
\* loop over the lines): event_stream, suspended at its yield, is closed;
\* GeneratorExit is no Exception, so neither line 132 nor the handler at
\* lines 135-139 runs
EsAbandon(i) ==
    /\ es_pc[i] = "streaming"
    /\ pc[i] \in {"seed_yielded", "yielded"}
    /\ Len(events[i]) = Len(yielded[i])
    /\ es_pc' = [es_pc EXCEPT ![i] = "closed"]
    /\ UNCHANGED <<orch, conversations, records, requested, started,
                   stream_conv, events, response>>

\* the requests of NextApi, and a client that may leave the stream
NextApiLive ==
    \/ NextApi
    \/ EsAbandon(1)

\* the server goes on with a stream as long as it can take a step
SpecApiLive ==
    /\ InitApi
    /\ [][NextApiLive]_vars
    /\ WF_vars(EsBegin(1) \/ EsNext(1) \/ EsDeliver(1) \/ EsComplete(1)
                  \/ EsFail(1))

\* C33 as stated: every conversation on which start-conversation was called
\* eventually leaves status 'running' and reaches 'completed' or 'failed',
\* for every stored num_agents and max_turns and also when the client stops
\* reading the event stream before its end.
C33_StartedEventuallyEnds ==
    \A c \in ConvIds :
        (c \in started) ~> (records[c].status \in {"completed", "failed"})

(***************************************************************************)
(* More than one start on a conversation                                   *)
(***************************************************************************)
\* the requests for a conversation of two participants
RequestsTwo ==
    {req \in Requests : req.client = "Toyota" /\ req.num_agents = 2}

\* create and start in any order; every start builds an orchestrator of its
\* own and its stream is consumed, two of them at most, in any interleaving
NextApiTwo ==
    \/ \E req \in RequestsTwo : CreateConversation(req)
    \/ \E c \in ConvIds, i \in Inst : StartConversation(c, i)
    \/ \E i \in Inst : EsBegin(i)
    \/ \E i \in Inst : EsNext(i)
    \/ \E i \in Inst : EsDeliver(i)
    \/ \E i \in Inst : EsComplete(i)
    \/ \E i \in Inst : EsFail(i)

SpecApiTwo == InitApi /\ [][NextApiTwo]_vars

\* the turn numbers of a list of messages
TurnsOf(ms) == [k \in 1..Len(ms) |-> ms[k].turn]

\* C34 as stated: under any sequence or interleaving of start-conversation
\* calls on one conversation the stored messages are the log prefix of a
\* single run (at most one turn-0 message, turn numbers strictly increasing)
\* and a status that was 'completed' or 'failed' is never set back to
\* 'running'.
C34_SingleRunLog ==
    /\ [](\A c \in conversations :
             LET ts == TurnsOf(records[c].messages)
             IN  /\ Cardinality({k \in DOMAIN ts : ts[k] = 0}) <= 1
                 /\ \A k \in 1..(Len(ts) - 1) : ts[k] < ts[k + 1])
    /\ [][\A c \in conversations :
             records[c].status \in {"completed", "failed"} =>
                 records'[c].status # "running"]_vars

(***************************************************************************)
(* A second call on the same orchestrator                                  *)
(***************************************************************************)
\* calls made on one orchestrator
MaxCalls == 2

\* variant: a later call begins with an empty log
RunAgain_fresh(i, seed) ==
    /\ pc[i] \in {"done", "raised"}
    /\ Len(log_at_call[i]) < MaxCalls
    /\ op' = [op EXCEPT ![i] = "run"]
    /\ initial_message' = [initial_message EXCEPT ![i] = seed]
    /\ log_at_call' =
          [log_at_call EXCEPT ![i] = Append(@, conversation_history[i])]
    /\ IF SeedRaises(agents[i], seed)
       THEN /\ error' = [error EXCEPT ![i] = ErrIndex]
            /\ pc' = [pc EXCEPT ![i] = "raised"]
            /\ UNCHANGED <<conversation_history, current_agent_index, turn>>
       ELSE /\ conversation_history' =
                  [conversation_history EXCEPT
                     ![i] = add_initial_message(agents[i], <<>>, seed)]
            /\ current_agent_index' =
                  [current_agent_index EXCEPT ![i] = StartIndex(seed)]
            /\ turn' = [turn EXCEPT ![i] = 1]
            /\ pc' = [pc EXCEPT ![i] = "loop"]
            /\ error' = [error EXCEPT ![i] = NoError]
    /\ yielded' = [yielded EXCEPT ![i] = <<>>]
    /\ backend_calls' = [backend_calls EXCEPT ![i] = 0]
    /\ skipped' = [skipped EXCEPT ![i] = 0]
    /\ answers' = [answers EXCEPT ![i] = <<>>]
    /\ request' = [request EXCEPT ![i] = <<>>]
    /\ UNCHANGED <<agents, max_turns, backend>>

\* run(initial_message) on an orchestrator whose earlier call has ended:
\* lines 133-137 on the log as that call left it; the index and the turn
\* are locals, and what is recorded about the call starts anew
RunAgain(i, seed) ==
    /\ pc[i] \in {"done", "raised"}
    /\ Len(log_at_call[i]) < MaxCalls
    /\ op' = [op EXCEPT ![i] = "run"]
    /\ initial_message' = [initial_message EXCEPT ![i] = seed]
    /\ log_at_call' =
          [log_at_call EXCEPT ![i] = Append(@, conversation_history[i])]
    /\ IF SeedRaises(agents[i], seed)
       THEN /\ error' = [error EXCEPT ![i] = ErrIndex]
            /\ pc' = [pc EXCEPT ![i] = "raised"]
            /\ UNCHANGED <<conversation_history, current_agent_index, turn>>
       ELSE /\ conversation_history' =
                  [conversation_history EXCEPT
                     ![i] = add_initial_message(agents[i], @, seed)]
            /\ current_agent_index' =
                  [current_agent_index EXCEPT ![i] = StartIndex(seed)]
            /\ turn' = [turn EXCEPT ![i] = 1]
            /\ pc' = [pc EXCEPT ![i] = "loop"]
            /\ error' = [error EXCEPT ![i] = NoError]
    /\ yielded' = [yielded EXCEPT ![i] = <<>>]
    /\ backend_calls' = [backend_calls EXCEPT ![i] = 0]
    /\ skipped' = [skipped EXCEPT ![i] = 0]
    /\ answers' = [answers EXCEPT ![i] = <<>>]
    /\ request' = [request EXCEPT ![i] = <<>>]
    /\ UNCHANGED <<agents, max_turns, backend>>

\* run_streaming(initial_message) on an orchestrator whose earlier call has
\* ended: a new generator, none of its body run
RunStreamingAgain(i, seed) ==
    /\ pc[i] \in {"done", "raised"}
    /\ Len(log_at_call[i]) < MaxCalls
    /\ op' = [op EXCEPT ![i] = "run_streaming"]
    /\ initial_message' = [initial_message EXCEPT ![i] = seed]
    /\ log_at_call' =
          [log_at_call EXCEPT ![i] = Append(@, conversation_history[i])]
    /\ pc' = [pc EXCEPT ![i] = "created"]
    /\ error' = [error EXCEPT ![i] = NoError]
    /\ yielded' = [yielded EXCEPT ![i] = <<>>]
    /\ backend_calls' = [backend_calls EXCEPT ![i] = 0]
    /\ skipped' = [skipped EXCEPT ![i] = 0]
    /\ answers' = [answers EXCEPT ![i] = <<>>]
    /\ request' = [request EXCEPT ![i] = <<>>]
    /\ UNCHANGED <<agents, max_turns, conversation_history,
                   current_agent_index, turn, backend>>

InitAgain ==
    /\ \E l \in IsoLists, m \in 1..IsoMaxTurns :
          Constructed([i \in Inst |-> IF i = 1 THEN l ELSE InertAgents],
                      [i \in Inst |-> IF i = 1 THEN m ELSE 1])
    /\ backend = "any"
    /\ ApiIdle

\* calls of run and run_streaming, one after the other, on orchestrator 1
NextAgain ==
    \/ \E seed \in Seeds : Run(1, seed) /\ UNCHANGED api
    \/ \E seed \in Seeds : RunStreaming(1, seed) /\ UNCHANGED api
    \/ \E seed \in Seeds : RunAgain(1, seed) /\ UNCHANGED api
    \/ \E seed \in Seeds : RunStreamingAgain(1, seed) /\ UNCHANGED api
    \/ Step(1) /\ UNCHANGED api

SpecAgain == InitAgain /\ [][NextAgain]_vars

\* the log as the call now under way found it
LogAtCall == Last(log_at_call[1])

\* what the call now under way has added to the log
AddedByCall == SubSeq(Log, Len(LogAtCall) + 1, Len(Log))

\* a later call on the orchestrator is under way or has ended
LaterCall == Len(log_at_call[1]) >= 2

\* C36: run and run_streaming never clear the log: a second call on the same
\* orchestrator (after a normal end, an early termination or a failure) finds
\* the first call's log, starts rotation again at index 1 with a new turn-0
\* seed or at index 0 without one, at turn number 1, and appends after the
\* first call's messages: the log is the first call's log followed by the
\* second call's messages, and respond is handed the first call's messages
\* as history.
C36_SecondCallAppends ==
    /\ \A k \in 1..Len(log_at_call[1]) : IsPrefix(log_at_call[1][k], Log)
    /\ (LaterCall /\ pc[1] = "loop" /\ turn[1] = 1) =>
           /\ current_agent_index[1] =
                 (IF Truthy(initial_message[1]) THEN 1 ELSE 0)
           /\ AddedByCall =
                 (IF Truthy(initial_message[1])
                  THEN <<SeedMessage(agents[1][1], initial_message[1].text)>>
                  ELSE <<>>)
    /\ LaterCall =>
           /\ \A k \in 1..Len(AddedByCall) :
                 /\ AddedByCall[k].turn = 0 <=>
                       (k = 1 /\ Truthy(initial_message[1]))
                 /\ AddedByCall[k].turn <= max_turns[1]
           /\ \A k \in 1..(Len(AddedByCall) - 1) :
                 AddedByCall[k].turn < AddedByCall[k + 1].turn
    /\ (LaterCall /\ pc[1] = "respond") =>
           /\ HandedTexts(request[1]) = Texts(Log)
           /\ IsPrefix(Texts(LogAtCall), HandedTexts(request[1]))

\* a second call, seeded, has ended normally after a first call that left two
\* messages, and has added its seed and a reply to them
C36_Witness ==
    /\ LaterCall
    /\ pc[1] = "done"
    /\ Len(LogAtCall) = 2
    /\ Len(AddedByCall) = 2
    /\ AddedByCall[1].turn = 0
    /\ AddedByCall[2].turn = 1
====
